---- MODULE Spec2Model ----
(***************************************************************************)
(* The stdio JSON-RPC client of scripts/mcp_client.py (McpStdioClient) and  *)
(* the child process it talks to.  The client is single threaded: one      *)
(* operation is in progress at a time, and it blocks in readline(),         *)
(* stderr.read() and wait(timeout=5), where the child runs concurrently.    *)
(***************************************************************************)
EXTENDS Integers, Sequences, FiniteSets, TLC

\* ------------------------------------------------------------------ bounds
\* request() invocations explored (next_id is unbounded in the code)
MaxCalls == 2
\* lines the child writes to its stdout during one run
MaxLines == 3
\* lines the stdout pipe holds before the child's write blocks
MaxPipe == 2
\* chunks the stderr pipe holds before the child's write blocks
MaxErr == 1
\* notify() invocations explored
MaxNotify == 1
\* close() invocations explored
MaxCloses == 2

\* ------------------------------------------------------- program constants
\* self.proc.wait(timeout=5)
WaitTimeout == 5
\* next_id: int = 1
FirstId == 1

\* ------------------------------------------------------------- JSON values
\* The "id" member of a decoded line: absent (dict.get gives None), an
\* integer, or the JSON literal true (Python bool, an int subclass with
\* value 1).
NoId == [t |-> "none", v |-> 0]
IntId(n) == [t |-> "int", v |-> n]
TrueId == [t |-> "bool", v |-> 1]
IdVals == {NoId, TrueId} \cup {IntId(n) : n \in FirstId..MaxCalls}

\* A line of the child's stdout as readline() delivers it.
\*   blank  : only whitespace before the newline
\*   bad    : non-blank, not a JSON document
\*   nonobj : a JSON document that is not an object ([], 3, null, "x")
\*   obj    : a JSON object; id is its "id" member
NoLine == [kind |-> "none", id |-> NoId]
BlankLine == [kind |-> "blank", id |-> NoId]
BadLine == [kind |-> "bad", id |-> NoId]
NonObjLine == [kind |-> "nonobj", id |-> NoId]
ObjLine(i) == [kind |-> "obj", id |-> i]
Lines == {BlankLine, BadLine, NonObjLine} \cup {ObjLine(i) : i \in IdVals}

\* Texts carried in result.content[0].text, and the documents they encode.
TextDoc == "{\"success\":true,\"grammarName\":\"G\",\"ruleCount\":1}"
TextScalar == "42"
TextFail == "{\"success\":false}"
TextBad == "not json"
NoText == "<no text>"
NoDoc == [ok |-> FALSE, type |-> "none", success |-> FALSE, grammarName |-> "", ruleCount |-> 0]
\* json.loads(text) of call_tool: a table over the texts of the model.
json_loads(text) ==
    CASE text = TextDoc ->
           [ok |-> TRUE, type |-> "object", success |-> TRUE, grammarName |-> "G", ruleCount |-> 1]
      [] text = TextScalar ->
           [ok |-> TRUE, type |-> "number", success |-> FALSE, grammarName |-> "", ruleCount |-> 42]
      [] text = TextFail ->
           [ok |-> TRUE, type |-> "object", success |-> FALSE, grammarName |-> "", ruleCount |-> 0]
      [] OTHER -> NoDoc

\* The members of a JSON object line other than "id" that the client reads:
\*   has_error  : "error" in resp
\*   has_result : resp.get("result") is a non-empty object
\*   content    : result.get("content") as a sequence (<< >> when absent/empty)
\* A content element: has_text says whether .get("text") is a str.
Elem(t) == [has_text |-> t # NoText, text |-> t]
Body(e, r, c) == [has_error |-> e, has_result |-> r, content |-> c]
NoBody == Body(FALSE, FALSE, << >>)
BodyOk == Body(FALSE, TRUE, <<Elem(TextDoc)>>)
BodyScalar == Body(FALSE, TRUE, <<Elem(TextScalar)>>)
BodyFail == Body(FALSE, TRUE, <<Elem(TextFail)>>)
BodyErr == Body(TRUE, FALSE, << >>)
BodyErrAndContent == Body(TRUE, TRUE, <<Elem(TextDoc)>>)
BodyEmptyContent == Body(FALSE, TRUE, << >>)
BodyNoText == Body(FALSE, TRUE, <<Elem(NoText)>>)
BodyBadText == Body(FALSE, TRUE, <<Elem(TextBad)>>)
Bodies == {NoBody, BodyOk, BodyScalar, BodyErr, BodyErrAndContent,
           BodyEmptyContent, BodyNoText, BodyBadText}

\* ------------------------------------------------------------------- state
VARIABLES
    command,      \* self.command
    proc,         \* self.proc: the Popen handle
    next_id,      \* self.next_id
    stdin_closed, \* self.proc.stdin.closed
    pc,           \* where the caller is: idle, or blocked inside an operation
    op,           \* the operation in progress (request, call_tool, initialize, close)
    req_id,       \* request(): the local req_id
    outcome,      \* how the last operation ended
    closeLog,     \* close(): the steps attempted by the call in progress / last call
    waited,       \* close(): time spent in wait(timeout=5)
    child,        \* the child process: running or exited
    sigterm,      \* SIGTERM was delivered to the child
    wire,         \* what the child has received on its stdin, in order
    outq,         \* the child's stdout pipe: lines written and not yet read
    out_eof,      \* the child's end of stdout is closed
    errq,         \* the child's stderr pipe: chunks written and not yet read
    err_eof,      \* the child's end of stderr is closed
    emitted,      \* number of lines the child has written to stdout
    calls,        \* number of request() invocations so far
    notifies,     \* number of notify() invocations so far
    closes,       \* number of close() invocations so far
    blanks,       \* serial numbers of the blank lines request() has skipped
    discarded,    \* serial numbers of the JSON lines request() has read and dropped
    tool_errors,  \* identifiers whose call_tool raised "tools/call error"
    script,       \* the consumer script whose main() is running
    spc,          \* main(): where it is (idle, try, finally, exit)
    stepno,       \* main(): the number of the next client call of its try block
    pending,      \* main(): the return or exception the finally clause holds back
    passed,       \* mcp_all_tools_demo.py: all_passed, over the results recorded
    status,       \* the exit status of the script's process
    slog,         \* the client methods main() has invoked, in order
    pc2,          \* a second thread calling request() on the same client: where it is
    req_id2,      \* the second thread's request(): its local req_id
    outcome2,     \* how the second thread's last request() ended
    answered,     \* the requests the server has answered, by place on the wire, in the order of its lines
    dropped,      \* serial numbers of the JSON lines the second thread has read and dropped
    peer,         \* a second McpStdioClient instance: its fields and what it has sent
    abandoned     \* identifiers of the requests sent whose call ended by raising, no response read

clientVars == <<command, proc, next_id, stdin_closed>>
callerVars == <<pc, op, req_id, outcome, closeLog, waited>>
childVars == <<child, sigterm, wire, outq, out_eof, errq, err_eof, emitted>>
histVars == <<calls, notifies, closes, blanks, discarded, tool_errors>>
scriptVars == <<script, spc, stepno, pending, passed, status, slog>>
caller2Vars == <<pc2, req_id2, outcome2, answered, dropped>>
\* What is neither this client, nor its caller, nor its child.
elseVars == <<scriptVars, caller2Vars, peer, abandoned>>
vars == <<clientVars, callerVars, childVars, histVars, elseVars>>

TheCommand == <<"java", "-jar", "server.jar">>
TheProc == "popen"

\* How an operation ended.  kind: none (in progress / nothing yet), return,
\* raise.  exc and site name the exception and the statement that raised it;
\* id is the identifier of the request; resp, body and serial are the response
\* request() returned; doc is call_tool's value; err is the stderr text in the
\* "exited" error.
Outcome(k, o, e, s) ==
    [kind |-> k, op |-> o, exc |-> e, site |-> s, id |-> 0, resp |-> NoLine,
     body |-> NoBody, serial |-> 0, doc |-> NoDoc, err |-> << >>]
NoOutcome == Outcome("none", "none", "", "")
Raise(o, e, s) == Outcome("raise", o, e, s)
Return(o) == Outcome("return", o, "", "")

\* The second client instance before it is constructed.
NoPeer == [command |-> << >>, proc |-> "none", next_id |-> 0, sent |-> << >>]

\* What main() does when its finally clause is over: return a value, or let
\* an exception go on.
NoPending == [kind |-> "none", value |-> 0, exc |-> ""]
PendingReturn(v) == [kind |-> "return", value |-> v, exc |-> ""]
PendingRaise(e) == [kind |-> "raise", value |-> 0, exc |-> e]
\* The process has not exited.
NoStatus == -1

Init ==
    /\ command = TheCommand
    /\ proc = TheProc
    /\ next_id = FirstId
    /\ stdin_closed = FALSE
    /\ pc = "idle"
    /\ op = "none"
    /\ req_id = 0
    /\ outcome = NoOutcome
    /\ closeLog = << >>
    /\ waited = 0
    /\ child = "running"
    /\ sigterm = FALSE
    /\ wire = << >>
    /\ outq = << >>
    /\ out_eof = FALSE
    /\ errq = << >>
    /\ err_eof = FALSE
    /\ emitted = 0
    /\ calls = 0
    /\ notifies = 0
    /\ closes = 0
    /\ blanks = {}
    /\ discarded = {}
    /\ tool_errors = {}
    /\ script = "none"
    /\ spc = "idle"
    /\ stepno = 0
    /\ pending = NoPending
    /\ passed = TRUE
    /\ status = NoStatus
    /\ slog = << >>
    /\ pc2 = "idle"
    /\ req_id2 = 0
    /\ outcome2 = NoOutcome
    /\ answered = << >>
    /\ dropped = {}
    /\ peer = NoPeer
    /\ abandoned = {}

\* Before McpStdioClient.start(): no client object, no child process.
NoCommand == << >>
NoProc == "none"

InitScript ==
    /\ command = NoCommand
    /\ proc = NoProc
    /\ next_id = 0
    /\ stdin_closed = FALSE
    /\ pc = "idle"
    /\ op = "none"
    /\ req_id = 0
    /\ outcome = NoOutcome
    /\ closeLog = << >>
    /\ waited = 0
    /\ child = "unborn"
    /\ sigterm = FALSE
    /\ wire = << >>
    /\ outq = << >>
    /\ out_eof = FALSE
    /\ errq = << >>
    /\ err_eof = FALSE
    /\ emitted = 0
    /\ calls = 0
    /\ notifies = 0
    /\ closes = 0
    /\ blanks = {}
    /\ discarded = {}
    /\ tool_errors = {}
    /\ script = "none"
    /\ spc = "idle"
    /\ stepno = 0
    /\ pending = NoPending
    /\ passed = TRUE
    /\ status = NoStatus
    /\ slog = << >>
    /\ pc2 = "idle"
    /\ req_id2 = 0
    /\ outcome2 = NoOutcome
    /\ answered = << >>
    /\ dropped = {}
    /\ peer = NoPeer
    /\ abandoned = {}

\* ------------------------------------------------------------ the transport
Request(i, m) == [kind |-> "request", id |-> i, method |-> m]
\* (Notification_numbered: a notification given the next identifier's place,
\* an id member)
Notification_numbered(m) == [kind |-> "notification", id |-> FirstId, method |-> m]

Notification(m) == [kind |-> "notification", id |-> 0, method |-> m]

\* The method each operation passes to request().
MethodOf(o) ==
    CASE o = "initialize" -> "initialize"
      [] o = "call_tool" -> "tools/call"
      [] OTHER -> "tools/list"

\* self.proc.stdin.write(line); flush(): fails on a closed file object
\* (ValueError) and on a pipe whose reader is gone (BrokenPipeError).
\* (write_fails_never: a write that reports no failure)
write_fails_never ==
    FALSE

write_fails == stdin_closed \/ child = "exited"
write_exc == IF stdin_closed THEN "ValueError" ELSE "BrokenPipeError"

\* self.next_id += 1 (next_id_stuck: the increment left out)
next_id_stuck(n) ==
    n

next_id_after(n) ==
    n + 1

\* resp.get("id") == req_id, with Python's ==: None equals no int, True == 1.
\* (id_matches_any: the comparison left out, any object is returned)
id_matches_any(resp, rid) ==
    TRUE

id_matches(resp, rid) ==
    resp.id.t \in {"int", "bool"} /\ resp.id.v = rid

\* Lines 75-81: what the read loop does with a line readline() delivered.
\*   skip    : blank after strip(), continue
\*   decode  : json.loads raises JSONDecodeError
\*   attr    : the document has no .get, AttributeError
\*   return  : the id matches, return resp
\*   discard : the id does not match, read the next line
\* The three variants before it: the blank test left out, decode errors
\* swallowed, and a mismatched id treated as an error.
readline_verdict_blank_decoded(line, rid) ==
    CASE line.kind = "blank" -> "decode"
      [] line.kind = "bad" -> "decode"
      [] line.kind = "nonobj" -> "attr"
      [] OTHER -> IF id_matches(line, rid) THEN "return" ELSE "discard"

readline_verdict_bad_skipped(line, rid) ==
    CASE line.kind = "blank" -> "skip"
      [] line.kind = "bad" -> "skip"
      [] line.kind = "nonobj" -> "attr"
      [] OTHER -> IF id_matches(line, rid) THEN "return" ELSE "discard"

readline_verdict_mismatch_fatal(line, rid) ==
    CASE line.kind = "blank" -> "skip"
      [] line.kind = "bad" -> "decode"
      [] line.kind = "nonobj" -> "attr"
      [] OTHER -> IF id_matches(line, rid) THEN "return" ELSE "attr"

readline_verdict(line, rid) ==
    CASE line.kind = "blank" -> "skip"
      [] line.kind = "bad" -> "decode"
      [] line.kind = "nonobj" -> "attr"
      [] OTHER -> IF id_matches(line, rid) THEN "return" ELSE "discard"

\* self.proc.stderr.read(): everything in the pipe, up to end of stream.
\* (stderr_read_nothing: err left at "")
stderr_read_nothing(q) ==
    << >>

stderr_read(q) ==
    q

\* Serial number (1 = first line the child wrote) of the line at the head of
\* the stdout pipe.
HeadSerial == emitted - Len(outq) + 1

\* ------------------------------------------------------------- call_tool
\* Lines 95-107: what call_tool does with the response request() returned.
\* (call_tool_result_content_first: content decoded before "error" is tested)
call_tool_result_content_first(o) ==
    LET b == o.body
        content == IF b.has_result THEN b.content ELSE << >>
    IN  IF content # << >> /\ content[1].has_text /\ json_loads(content[1].text).ok
        THEN [o EXCEPT !.kind = "return", !.doc = json_loads(content[1].text)]
        ELSE [o EXCEPT !.kind = "raise", !.exc = "RuntimeError", !.site = "tools/call error"]

\* (call_tool_result_unchecked: the tests of lines 100 and 104 left out, a
\* missing content or text handed on as the value.  call_tool_result_lenient:
\* a text that does not parse returned as it is)
call_tool_result_unchecked(o) ==
    LET b == o.body
        content == IF b.has_result THEN b.content ELSE << >>
    IN  IF b.has_error
        THEN [o EXCEPT !.kind = "raise", !.exc = "RuntimeError", !.site = "tools/call error"]
        ELSE IF content = << >> \/ ~content[1].has_text
        THEN [o EXCEPT !.kind = "return"]
        ELSE IF ~json_loads(content[1].text).ok
        THEN [o EXCEPT !.kind = "raise", !.exc = "JSONDecodeError", !.site = "json.loads(text)"]
        ELSE [o EXCEPT !.kind = "return", !.doc = json_loads(content[1].text)]

call_tool_result_lenient(o) ==
    LET b == o.body
        content == IF b.has_result THEN b.content ELSE << >>
    IN  IF b.has_error
        THEN [o EXCEPT !.kind = "raise", !.exc = "RuntimeError", !.site = "tools/call error"]
        ELSE IF content = << >>
        THEN [o EXCEPT !.kind = "raise", !.exc = "RuntimeError", !.site = "no content"]
        ELSE IF ~content[1].has_text
        THEN [o EXCEPT !.kind = "raise", !.exc = "RuntimeError", !.site = "unexpected payload"]
        ELSE [o EXCEPT !.kind = "return", !.doc = json_loads(content[1].text)]

call_tool_result(o) ==
    LET b == o.body
        content == IF b.has_result THEN b.content ELSE << >>
    IN  IF b.has_error
        THEN [o EXCEPT !.kind = "raise", !.exc = "RuntimeError", !.site = "tools/call error"]
        ELSE IF content = << >>
        THEN [o EXCEPT !.kind = "raise", !.exc = "RuntimeError", !.site = "no content"]
        ELSE IF ~content[1].has_text
        THEN [o EXCEPT !.kind = "raise", !.exc = "RuntimeError", !.site = "unexpected payload"]
        ELSE IF ~json_loads(content[1].text).ok
        THEN [o EXCEPT !.kind = "raise", !.exc = "JSONDecodeError", !.site = "json.loads(text)"]
        ELSE [o EXCEPT !.kind = "return", !.doc = json_loads(content[1].text)]

\* --------------------------------------------------------------- request
\* Lines 54-64: take the next identifier, write the request and flush.
\* (request_send_handshake_enforced: a call other than initialize refused
\* until notifications/initialized has been sent)
request_send_handshake_enforced(o) ==
    /\ pc = "idle"
    /\ next_id <= MaxCalls
    /\ req_id' = next_id
    /\ next_id' = next_id_after(next_id)
    /\ calls' = calls + 1
    /\ IF o # "initialize"
          /\ \A i \in 1..Len(wire) : wire[i].method # "notifications/initialized"
       THEN /\ pc' = "idle"
            /\ op' = "none"
            /\ outcome' = [Raise(o, "RuntimeError", "not initialized") EXCEPT !.id = next_id]
            /\ wire' = wire
       ELSE IF write_fails
       THEN /\ pc' = "idle"
            /\ op' = "none"
            /\ outcome' = [Raise(o, write_exc, "write") EXCEPT !.id = next_id]
            /\ wire' = wire
       ELSE /\ pc' = "req_read"
            /\ op' = o
            /\ outcome' = NoOutcome
            /\ wire' = Append(wire, Request(next_id, MethodOf(o)))
    /\ UNCHANGED <<command, proc, stdin_closed, closeLog, waited>>
    /\ UNCHANGED <<child, sigterm, outq, out_eof, errq, err_eof, emitted>>
    /\ UNCHANGED <<notifies, closes, blanks, discarded, tool_errors>>
    /\ UNCHANGED elseVars

request_send(o) ==
    /\ pc = "idle"
    /\ next_id <= MaxCalls
    /\ req_id' = next_id
    /\ next_id' = next_id_after(next_id)
    /\ calls' = calls + 1
    /\ IF write_fails
       THEN /\ pc' = "idle"
            /\ op' = "none"
            /\ outcome' = [Raise(o, write_exc, "write") EXCEPT !.id = next_id]
            /\ wire' = wire
       ELSE /\ pc' = "req_read"
            /\ op' = o
            /\ outcome' = NoOutcome
            /\ wire' = Append(wire, Request(next_id, MethodOf(o)))
    /\ UNCHANGED <<command, proc, stdin_closed, closeLog, waited>>
    /\ UNCHANGED <<child, sigterm, outq, out_eof, errq, err_eof, emitted>>
    /\ UNCHANGED <<notifies, closes, blanks, discarded, tool_errors>>
    /\ UNCHANGED elseVars

\* Line 119: if "error" in init_resp.  (handshake_failed_never: the test
\* left out)
handshake_failed_never(body) ==
    FALSE

handshake_failed(body) ==
    body.has_error

\* Line 122: what initialize() writes after a response without "error".
\* (initialized_notification_none: the notification left out)
initialized_notification_none ==
    << >>

initialized_notification ==
    <<Notification("notifications/initialized")>>

\* The response request() returns (line 81), as the operation in progress
\* hands it on: request returns it, call_tool decodes it (95-107), initialize
\* checks it and sends notifications/initialized (119-122).
request_return(line, serial, body) ==
    LET got == [Return(op) EXCEPT !.id = req_id, !.resp = line, !.body = body,
                                  !.serial = serial]
    IN  /\ pc' = "idle"
        /\ op' = "none"
        /\ CASE op = "call_tool" ->
                  /\ outcome' = call_tool_result(got)
                  /\ wire' = wire
             [] op = "initialize" ->
                  IF handshake_failed(body)
                  THEN /\ outcome' = [got EXCEPT !.kind = "raise", !.exc = "RuntimeError",
                                                 !.site = "initialize failed"]
                       /\ wire' = wire
                  ELSE IF write_fails
                  THEN /\ outcome' = [got EXCEPT !.kind = "raise", !.exc = write_exc,
                                                 !.site = "write"]
                       /\ wire' = wire
                  ELSE /\ outcome' = got
                       /\ wire' = wire \o initialized_notification
             [] OTHER ->
                  /\ outcome' = got
                  /\ wire' = wire
        /\ tool_errors' = IF outcome'.site = "tools/call error"
                          THEN tool_errors \cup {req_id} ELSE tool_errors
        /\ UNCHANGED <<blanks, discarded>>

\* Lines 67-81: one turn of the read loop.
request_readline ==
    /\ pc = "req_read"
    /\ IF outq = << >>
       THEN \* readline() returns "" only at end of stream; it blocks otherwise
            /\ out_eof
            /\ pc' = "req_drain"
            /\ UNCHANGED <<op, outcome, wire, outq, blanks, discarded, tool_errors>>
       ELSE LET line == Head(outq)
                serial == HeadSerial
                verdict == readline_verdict(line, req_id)
            IN  /\ outq' = Tail(outq)
                /\ CASE verdict = "skip" ->
                          /\ blanks' = blanks \cup {serial}
                          /\ UNCHANGED <<pc, op, outcome, wire, discarded, tool_errors>>
                     [] verdict = "decode" ->
                          /\ pc' = "idle"
                          /\ op' = "none"
                          /\ outcome' = [Raise(op, "JSONDecodeError", "json.loads(line)")
                                           EXCEPT !.id = req_id, !.serial = serial]
                          /\ UNCHANGED <<wire, blanks, discarded, tool_errors>>
                     [] verdict = "attr" ->
                          /\ pc' = "idle"
                          /\ op' = "none"
                          /\ outcome' = [Raise(op, "AttributeError", "resp.get")
                                           EXCEPT !.id = req_id, !.serial = serial]
                          /\ UNCHANGED <<wire, blanks, discarded, tool_errors>>
                     [] verdict = "return" ->
                          \E body \in Bodies : request_return(line, serial, body)
                     [] OTHER ->
                          /\ discarded' = discarded \cup {serial}
                          /\ UNCHANGED <<pc, op, outcome, wire, blanks, tool_errors>>
    /\ UNCHANGED <<clientVars, req_id, closeLog, waited>>
    /\ UNCHANGED <<child, sigterm, out_eof, errq, err_eof, emitted>>
    /\ UNCHANGED <<calls, notifies, closes>>
    /\ abandoned' = IF pc' = "idle" /\ outcome'.kind = "raise" /\ outcome'.resp = NoLine
                    THEN abandoned \cup {req_id} ELSE abandoned
    /\ UNCHANGED <<scriptVars, caller2Vars, peer>>

\* Lines 69-73: at end of stream, stderr.read() (blocks until the child's end
\* of stderr is closed) and raise with what it read.
request_drain ==
    /\ pc = "req_drain"
    /\ err_eof
    /\ pc' = "idle"
    /\ op' = "none"
    /\ outcome' = [Raise(op, "RuntimeError", "exited")
                     EXCEPT !.id = req_id, !.err = stderr_read(errq)]
    /\ errq' = << >>
    /\ UNCHANGED <<clientVars, req_id, closeLog, waited, histVars>>
    /\ UNCHANGED <<child, sigterm, wire, outq, out_eof, err_eof, emitted>>
    /\ abandoned' = abandoned \cup {req_id}
    /\ UNCHANGED <<scriptVars, caller2Vars, peer>>

\* ---------------------------------------------------------------- notify
\* Lines 84-91: write the notification and flush; nothing is read.
\* (notify_reads_reply: a notify() that reads a line of the child's stdout
\* after writing, as request() does)
notify_reads_reply ==
    /\ pc = "idle"
    /\ notifies < MaxNotify
    /\ outq # << >>
    /\ notifies' = notifies + 1
    /\ outq' = Tail(outq)
    /\ IF stdin_closed \/ child = "exited"
       THEN /\ outcome' = Raise("notify", "BrokenPipeError", "write")
            /\ wire' = wire
       ELSE /\ outcome' = Return("notify")
            /\ wire' = Append(wire, Notification("notifications/custom"))
    /\ UNCHANGED <<command, proc, next_id, stdin_closed, pc, op, req_id, closeLog, waited>>
    /\ UNCHANGED <<child, sigterm, out_eof, errq, err_eof, emitted>>
    /\ UNCHANGED <<calls, closes, blanks, discarded, tool_errors>>
    /\ UNCHANGED elseVars

\* (notify_unflushed: line 91 left out, the line stays in the file object's
\* buffer)
notify_unflushed ==
    /\ pc = "idle"
    /\ notifies < MaxNotify
    /\ notifies' = notifies + 1
    /\ IF write_fails
       THEN /\ outcome' = Raise("notify", write_exc, "write")
            /\ wire' = wire
       ELSE /\ outcome' = Return("notify")
            /\ wire' = wire
    /\ UNCHANGED <<clientVars, pc, op, req_id, closeLog, waited>>
    /\ UNCHANGED <<child, sigterm, outq, out_eof, errq, err_eof, emitted>>
    /\ UNCHANGED <<calls, closes, blanks, discarded, tool_errors>>
    /\ UNCHANGED elseVars

\* (notify_drains_stderr: a notify() that also empties the stderr pipe)
notify_drains_stderr ==
    /\ pc = "idle"
    /\ notifies < MaxNotify
    /\ notifies' = notifies + 1
    /\ IF write_fails
       THEN /\ outcome' = Raise("notify", write_exc, "write")
            /\ wire' = wire
       ELSE /\ outcome' = Return("notify")
            /\ wire' = Append(wire, Notification("notifications/custom"))
    /\ errq' = << >>
    /\ UNCHANGED <<clientVars, pc, op, req_id, closeLog, waited>>
    /\ UNCHANGED <<child, sigterm, outq, out_eof, err_eof, emitted>>
    /\ UNCHANGED <<calls, closes, blanks, discarded, tool_errors>>
    /\ UNCHANGED elseVars

notify ==
    /\ pc = "idle"
    /\ notifies < MaxNotify
    /\ notifies' = notifies + 1
    /\ IF write_fails
       THEN /\ outcome' = Raise("notify", write_exc, "write")
            /\ wire' = wire
       ELSE /\ outcome' = Return("notify")
            /\ wire' = Append(wire, Notification("notifications/custom"))
    /\ UNCHANGED <<clientVars, pc, op, req_id, closeLog, waited>>
    /\ UNCHANGED <<child, sigterm, outq, out_eof, errq, err_eof, emitted>>
    /\ UNCHANGED <<calls, closes, blanks, discarded, tool_errors>>
    /\ UNCHANGED elseVars

\* ----------------------------------------------------------------- close
\* Lines 35-51.  Each step sits in its own try; CloseStep is a step attempted
\* and whether it completed without an exception.
CloseStep(name, ok) == [step |-> name, ok |-> ok]

\* except Exception: pass (lines 39, 43, 47, 50): which steps' exceptions
\* close() catches.  (caught_but_kill: the innermost try left out)
caught_but_kill(step) ==
    step # "kill"

caught(step) ==
    TRUE

\* The statement close() goes to after a step, given whether the step raised.
\* (next_step_chained: the steps in one try block, a failure skips the rest)
next_step_chained(step, raised) ==
    CASE step = "stdin.close" -> IF raised THEN "idle" ELSE "close_terminate"
      [] step = "terminate" -> IF raised THEN "idle" ELSE "close_wait"
      [] step = "wait" -> IF raised THEN "close_kill" ELSE "idle"
      [] OTHER -> "idle"

\* (next_step_kill_always: kill() called after the wait whether or not it
\* timed out)
next_step_kill_always(step, raised) ==
    CASE step = "stdin.close" -> "close_terminate"
      [] step = "terminate" -> "close_wait"
      [] step = "wait" -> "close_kill"
      [] OTHER -> "idle"

next_step(step, raised) ==
    CASE step = "stdin.close" -> "close_terminate"
      [] step = "terminate" -> "close_wait"
      [] step = "wait" -> IF raised THEN "close_kill" ELSE "idle"
      [] OTHER -> "idle"

\* One step of close() has run: log it and go on, return, or (were the
\* exception not caught) raise.
close_advance(step, raised, exc, log) ==
    /\ closeLog' = Append(log, CloseStep(step, ~raised))
    /\ IF raised /\ ~caught(step)
       THEN /\ pc' = "idle"
            /\ op' = "none"
            /\ outcome' = Raise("close", exc, step)
       ELSE /\ pc' = next_step(step, raised)
            /\ op' = IF next_step(step, raised) = "idle" THEN "none" ELSE "close"
            /\ outcome' = IF next_step(step, raised) = "idle"
                          THEN Return("close") ELSE NoOutcome

\* Lines 36-40: self.proc.stdin.close().  Closing a closed file does nothing;
\* closing an open one can raise while flushing, and the file is closed anyway.
\* (close_stdin_forgets_proc: a close() that also drops the process handle)
close_stdin_forgets_proc ==
    /\ pc = "idle"
    /\ closes < MaxCloses
    /\ closes' = closes + 1
    /\ \E raised \in BOOLEAN :
          /\ raised => ~stdin_closed
          /\ close_advance("stdin.close", raised, "OSError", << >>)
    /\ stdin_closed' = TRUE
    /\ waited' = 0
    /\ proc' = NoProc
    /\ UNCHANGED <<command, next_id, req_id, childVars>>
    /\ UNCHANGED <<calls, notifies, blanks, discarded, tool_errors>>
    /\ UNCHANGED elseVars

close_stdin ==
    /\ pc = "idle"
    /\ closes < MaxCloses
    /\ closes' = closes + 1
    /\ \E raised \in BOOLEAN :
          /\ raised => ~stdin_closed
          /\ close_advance("stdin.close", raised, "OSError", << >>)
    /\ stdin_closed' = TRUE
    /\ waited' = 0
    /\ UNCHANGED <<command, proc, next_id, req_id, childVars>>
    /\ UNCHANGED <<calls, notifies, blanks, discarded, tool_errors>>
    /\ UNCHANGED elseVars

\* Lines 41-44: self.proc.terminate().  Popen polls first and sends no signal
\* to a child that has exited.
close_terminate ==
    /\ pc = "close_terminate"
    /\ \E raised \in BOOLEAN :
          /\ raised => child = "running"
          /\ close_advance("terminate", raised, "OSError", closeLog)
          /\ sigterm' = (sigterm \/ (child = "running" /\ ~raised))
    /\ UNCHANGED <<clientVars, req_id, waited, histVars>>
    /\ UNCHANGED <<child, wire, outq, out_eof, errq, err_eof, emitted>>
    /\ UNCHANGED elseVars

\* Line 46: time passes in wait(timeout=5) while the child runs.
close_wait_tick ==
    /\ pc = "close_wait"
    /\ child = "running"
    /\ waited < WaitTimeout
    /\ waited' = waited + 1
    /\ UNCHANGED <<clientVars, pc, op, req_id, outcome, closeLog, histVars, childVars>>
    /\ UNCHANGED elseVars

\* Lines 45-47: wait(timeout=5) returns when the child has exited, and raises
\* TimeoutExpired when the timeout ends with the child running.
close_wait ==
    /\ pc = "close_wait"
    /\ child = "running" => waited = WaitTimeout
    /\ close_advance("wait", child = "running", "TimeoutExpired", closeLog)
    /\ UNCHANGED <<clientVars, req_id, waited, histVars, childVars>>
    /\ UNCHANGED elseVars

\* Lines 48-51: self.proc.kill().
close_kill ==
    /\ pc = "close_kill"
    /\ \E raised \in BOOLEAN :
          /\ raised => child = "running"
          /\ close_advance("kill", raised, "OSError", closeLog)
          /\ IF child = "running" /\ ~raised
             THEN /\ child' = "exited"
                  /\ out_eof' = TRUE
                  /\ err_eof' = TRUE
             ELSE UNCHANGED <<child, out_eof, err_eof>>
    /\ UNCHANGED <<clientVars, req_id, waited, histVars>>
    /\ UNCHANGED <<sigterm, wire, outq, errq, emitted>>
    /\ UNCHANGED elseVars

\* ----------------------------------------------------------------- child
\* The server writes one line to its stdout.  The members of a JSON object
\* other than "id" are read by nobody until the line is returned by
\* request(), and are chosen there.
ServerEmit(line) ==
    /\ child = "running"
    /\ ~out_eof
    /\ emitted < MaxLines
    /\ Len(outq) < MaxPipe
    /\ emitted' = emitted + 1
    /\ outq' = Append(outq, line)
    /\ UNCHANGED <<clientVars, callerVars, histVars>>
    /\ UNCHANGED <<child, sigterm, wire, out_eof, errq, err_eof>>
    /\ UNCHANGED elseVars

\* The server answers the request in flight with one well-formed line.
ServerReply ==
    /\ pc = "req_read"
    /\ ServerEmit(ObjLine(IntId(req_id)))

ServerStderr ==
    /\ child = "running"
    /\ ~err_eof
    /\ Len(errq) < MaxErr
    /\ errq' = Append(errq, Len(errq) + 1)
    /\ UNCHANGED <<clientVars, callerVars, histVars>>
    /\ UNCHANGED <<child, sigterm, wire, outq, out_eof, err_eof, emitted>>
    /\ UNCHANGED elseVars

ChildCloseStdout ==
    /\ child = "running"
    /\ ~out_eof
    /\ out_eof' = TRUE
    /\ UNCHANGED <<clientVars, callerVars, histVars>>
    /\ UNCHANGED <<child, sigterm, wire, outq, errq, err_eof, emitted>>
    /\ UNCHANGED elseVars

\* The child exits, by itself or on a signal; its ends of the pipes close.
ChildExit ==
    /\ child = "running"
    /\ child' = "exited"
    /\ out_eof' = TRUE
    /\ err_eof' = TRUE
    /\ UNCHANGED <<clientVars, callerVars, histVars>>
    /\ UNCHANGED <<sigterm, wire, outq, errq, emitted>>
    /\ UNCHANGED elseVars

\* -------------------------------------------------------- consumer scripts
\* main() of the seven demo scripts.  Each starts a client and runs
\*     try: client.initialize(); <client calls>; return <status>
\*     [except Exception: return 1]
\*     finally: client.close()
\* A client call is taken whole here: what request(), call_tool() and
\* initialize() do with the lines they read is given by the operators above.
Scripts == {"calculator", "sql", "route_dsl", "api_schema", "all_tools",
            "grammar_analysis", "profiling"}

\* One client call of a try block, and what main() does with its value:
\*   none         : the value is not used
\*   list         : tools_resp.get("result", {}).get("tools", [])
\*   error_raises : if "error" in tools: raise RuntimeError
\*   get          : members read with .get()
\*   write        : members read with .get() and written to files
\*   return1      : if not value.get("success"): return 1
\*   record       : results[tool] = value, counted in all_passed at the end
ScriptStep(o, t, c) == [op |-> o, tool |-> t, check |-> c]

\* The client calls that follow initialize() in each script, in program order
\* (the for loop over three targets of mcp_all_tools_demo.py unrolled).
Calls(s) ==
    CASE s = "calculator" ->
           <<ScriptStep("request", "tools/list", "error_raises"),
             ScriptStep("call_tool", "validate_grammar", "return1"),
             ScriptStep("call_tool", "parse_sample", "get"),
             ScriptStep("call_tool", "detect_ambiguity", "get"),
             ScriptStep("call_tool", "compile_grammar_multi_target", "return1")>>
      [] s = "sql" ->
           <<ScriptStep("call_tool", "validate_grammar", "return1"),
             ScriptStep("call_tool", "parse_sample", "return1"),
             ScriptStep("call_tool", "compile_grammar_multi_target", "return1")>>
      [] s = "route_dsl" ->
           <<ScriptStep("request", "tools/list", "error_raises"),
             ScriptStep("call_tool", "validate_grammar", "return1"),
             ScriptStep("call_tool", "parse_sample", "return1"),
             ScriptStep("call_tool", "compile_grammar_multi_target", "return1")>>
      [] s = "api_schema" ->
           <<ScriptStep("request", "tools/list", "error_raises"),
             ScriptStep("call_tool", "validate_grammar", "return1"),
             ScriptStep("call_tool", "analyze_call_graph", "get"),
             ScriptStep("call_tool", "parse_sample", "return1"),
             ScriptStep("call_tool", "detect_ambiguity", "get"),
             ScriptStep("call_tool", "compile_grammar_multi_target", "return1")>>
      [] s = "all_tools" ->
           <<ScriptStep("request", "tools/list", "list"),
             ScriptStep("call_tool", "validate_grammar", "record"),
             ScriptStep("call_tool", "parse_sample", "record"),
             ScriptStep("call_tool", "compile_grammar_multi_target", "get"),
             ScriptStep("call_tool", "compile_grammar_multi_target", "get"),
             ScriptStep("call_tool", "compile_grammar_multi_target", "record"),
             ScriptStep("call_tool", "detect_ambiguity", "record"),
             ScriptStep("call_tool", "detect_ambiguity", "get"),
             ScriptStep("call_tool", "analyze_left_recursion", "record"),
             ScriptStep("call_tool", "analyze_first_follow", "record"),
             ScriptStep("call_tool", "analyze_call_graph", "record"),
             ScriptStep("call_tool", "analyze_call_graph", "get"),
             ScriptStep("call_tool", "profile_grammar", "record"),
             ScriptStep("call_tool", "visualize_atn", "record")>>
      [] s = "grammar_analysis" ->
           <<ScriptStep("call_tool", "analyze_left_recursion", "get"),
             ScriptStep("call_tool", "analyze_left_recursion", "get"),
             ScriptStep("call_tool", "analyze_first_follow", "get"),
             ScriptStep("call_tool", "analyze_call_graph", "write"),
             ScriptStep("call_tool", "analyze_call_graph", "write"),
             ScriptStep("call_tool", "visualize_atn", "write"),
             ScriptStep("call_tool", "visualize_atn", "get")>>
      [] s = "profiling" ->
           <<ScriptStep("call_tool", "validate_grammar", "get"),
             ScriptStep("call_tool", "profile_grammar", "get")>>
      [] OTHER -> << >>

\* The client calls of the try block: client.initialize() is its first
\* statement in every script.  (Steps_no_handshake: a script that goes
\* straight to its calls)
Steps_no_handshake(s) ==
    Calls(s)

Steps(s) ==
    <<ScriptStep("initialize", "", "none")>> \o Calls(s)

\* The scripts whose try has an "except Exception" clause that returns 1.
CatchesAll(s) == s \in {"all_tools", "grammar_analysis", "profiling"}
\* The scripts that write the generated files after their last call.
WritesFiles(s) == s \in {"calculator", "sql", "route_dsl", "api_schema"}
\* The value main() returns at the end of its try block.
ReturnValue(s, all_passed) == IF s = "all_tools" /\ ~all_passed THEN 1 ELSE 0

\* How main() treats an exception raised inside its try block.
\* (on_exception_swallowed: an except clause that reports and returns 0)
on_exception_swallowed(s, e) == PendingReturn(0)

\* An exception raised inside the try block: turned into "return 1" by the
\* except clause where there is one, on its way out of main() otherwise.
on_exception(s, e) == IF CatchesAll(s) THEN PendingReturn(1) ELSE PendingRaise(e)

\* Where control goes when the try block is left by a return or by an
\* exception: to the finally clause.  (after_try_unprotected: close() as the
\* last statement of the block instead of in a finally clause, skipped by an
\* exception and by an early return)
after_try_unprotected(p) ==
    IF p.kind = "raise" \/ p.value # 0 THEN "exit" ELSE "finally"

after_try(p) ==
    "finally"

\* raise SystemExit(main()): the value main() returned, or 1 with a traceback
\* for an exception nobody caught.
ExitStatus(p) == IF p.kind = "return" THEN p.value ELSE 1

\* main() leaves its try block with p pending.
leave_try(p) ==
    /\ pending' = p
    /\ spc' = after_try(p)
    /\ status' = IF after_try(p) = "exit" THEN ExitStatus(p) ELSE status

\* What can become of a request once written: the child answers it, the
\* child exits without answering, or the child writes a line that is not JSON.
Fates == {"answered", "eof", "garbage"}
\* The responses of the scripts' runs: those of Bodies, and a tool result
\* whose document says "success": false.
ScriptBodies == Bodies \cup {BodyFail}

\* request(), call_tool() or initialize() from its first statement to its
\* last: how operation o of the request with the next identifier ends.
whole_call(o, fate, body) ==
    LET got == [Return(o) EXCEPT !.id = next_id, !.resp = ObjLine(IntId(next_id)),
                                 !.body = body]
    IN  IF write_fails
        THEN [Raise(o, write_exc, "write") EXCEPT !.id = next_id]
        ELSE CASE fate = "eof" ->
                    [Raise(o, "RuntimeError", "exited") EXCEPT !.id = next_id]
               [] fate = "garbage" ->
                    [Raise(o, "JSONDecodeError", "json.loads(line)") EXCEPT !.id = next_id]
               [] o = "call_tool" -> call_tool_result(got)
               [] o = "initialize" /\ handshake_failed(body) ->
                    [got EXCEPT !.kind = "raise", !.exc = "RuntimeError",
                                !.site = "initialize failed"]
               [] OTHER -> got

\* What main() does after a client call ended as res: NoPending to go on to
\* the next statement, or the way it leaves the try block.
reaction(s, check, res, io_fails) ==
    IF res.kind = "raise"
    THEN on_exception(s, res.exc)
    ELSE CASE check \in {"none", "list"} -> NoPending
           [] check = "error_raises" ->
                IF res.body.has_error THEN on_exception(s, "RuntimeError") ELSE NoPending
           [] OTHER ->
                IF res.doc.type # "object" THEN on_exception(s, "AttributeError")
                ELSE IF check = "return1" /\ ~res.doc.success THEN PendingReturn(1)
                ELSE IF check = "write" /\ io_fails THEN on_exception(s, "OSError")
                ELSE NoPending

\* Lines 22-33: how start() ends.  Popen either launches the child, with the
\* three pipes it was asked for (the test of line 31 cannot succeed with
\* stdin, stdout and stderr all PIPE), or raises OSError, which start() lets
\* through.  (start_outcome_swallowed: the exception of Popen caught and a
\* client returned all the same)
start_outcome_swallowed(launched) ==
    Return("start")

start_outcome(launched) ==
    IF launched THEN Return("start") ELSE Raise("start", "OSError", "Popen")

\* McpStdioClient.start(cmd): one Popen, and on success the client object
\* cls(command=command, proc=proc) with next_id at its default.
start(cmd, launched) ==
    /\ proc = NoProc
    /\ outcome' = start_outcome(launched)
    /\ IF launched
       THEN /\ command' = cmd
            /\ proc' = TheProc
            /\ next_id' = FirstId
            /\ stdin_closed' = FALSE
            /\ child' = "running"
            /\ out_eof' = FALSE
            /\ err_eof' = FALSE
       ELSE UNCHANGED <<command, proc, next_id, stdin_closed, child, out_eof, err_eof>>
    /\ UNCHANGED <<pc, op, req_id, closeLog, waited, sigterm, wire, outq, errq, emitted>>
    /\ UNCHANGED histVars
    /\ UNCHANGED <<caller2Vars, peer, abandoned>>

\* client = McpStdioClient.start(cmd), the statement before the try block:
\* with a client main() enters the try block, with an exception it ends.
script_start(s) ==
    /\ spc = "idle"
    /\ script = "none"
    /\ script' = s
    /\ slog' = <<"start">>
    /\ \E launched \in BOOLEAN : start(TheCommand, launched)
    /\ IF outcome'.kind = "return"
       THEN /\ spc' = "try"
            /\ stepno' = 1
            /\ pending' = NoPending
            /\ status' = status
       ELSE /\ spc' = "exit"
            /\ stepno' = 0
            /\ pending' = PendingRaise(outcome'.exc)
            /\ status' = ExitStatus(PendingRaise(outcome'.exc))
    /\ UNCHANGED passed

\* The next client call of the try block and the statements up to the one
\* after it.
script_call ==
    /\ spc = "try"
    /\ pc = "idle"
    /\ stepno \in 1..Len(Steps(script))
    /\ LET st == Steps(script)[stepno]
       IN  /\ slog' = Append(slog, st.op)
           /\ \E fate \in Fates, body \in ScriptBodies, io_fails \in BOOLEAN :
                 LET res == whole_call(st.op, fate, body)
                     p == reaction(script, st.check, res, io_fails)
                 IN  /\ io_fails => st.check = "write"
                     /\ outcome' = res
                     /\ wire' = IF write_fails THEN wire
                                ELSE Append(wire, Request(next_id, MethodOf(st.op)))
                                     \o (IF st.op = "initialize" /\ res.kind = "return"
                                         THEN initialized_notification ELSE << >>)
                     /\ IF ~write_fails /\ fate = "eof"
                        THEN /\ child' = "exited"
                             /\ out_eof' = TRUE
                             /\ err_eof' = TRUE
                        ELSE UNCHANGED <<child, out_eof, err_eof>>
                     /\ passed' = IF st.check = "record" /\ res.kind = "return"
                                     /\ res.doc.type = "object"
                                  THEN passed /\ res.doc.success ELSE passed
                     /\ IF p = NoPending
                        THEN /\ stepno' = stepno + 1
                             /\ UNCHANGED <<spc, pending, status>>
                        ELSE /\ stepno' = stepno
                             /\ leave_try(p)
    /\ req_id' = next_id
    /\ next_id' = next_id_after(next_id)
    /\ calls' = calls + 1
    /\ UNCHANGED <<script, command, proc, stdin_closed, pc, op, closeLog, waited>>
    /\ UNCHANGED <<sigterm, outq, errq, emitted>>
    /\ UNCHANGED <<notifies, closes, blanks, discarded, tool_errors>>
    /\ abandoned' = IF ~write_fails /\ outcome'.kind = "raise" /\ outcome'.resp = NoLine
                    THEN abandoned \cup {next_id} ELSE abandoned
    /\ UNCHANGED <<caller2Vars, peer>>

\* The statements after the last client call: the generated files are
\* written where the script writes any, and main() returns.
script_tail ==
    /\ spc = "try"
    /\ stepno = Len(Steps(script)) + 1
    /\ \E io_fails \in BOOLEAN :
          /\ io_fails => WritesFiles(script)
          /\ leave_try(IF io_fails THEN on_exception(script, "OSError")
                       ELSE PendingReturn(ReturnValue(script, passed)))
    /\ UNCHANGED <<script, stepno, passed, slog>>
    /\ UNCHANGED <<clientVars, callerVars, childVars, histVars>>
    /\ UNCHANGED <<caller2Vars, peer, abandoned>>

\* finally: client.close(), whole (its steps are those of SpecClose; it does
\* not raise), and main() ends the way the try block left it.
script_finally ==
    /\ spc = "finally"
    /\ pc = "idle"
    /\ slog' = Append(slog, "close")
    /\ closes' = closes + 1
    /\ stdin_closed' = TRUE
    /\ outcome' = Return("close")
    /\ IF child = "running"
       THEN \E sent, died \in BOOLEAN :
               /\ sigterm' = (sigterm \/ sent)
               /\ child' = IF died THEN "exited" ELSE "running"
               /\ out_eof' = (out_eof \/ died)
               /\ err_eof' = (err_eof \/ died)
       ELSE UNCHANGED <<sigterm, child, out_eof, err_eof>>
    /\ spc' = "exit"
    /\ status' = ExitStatus(pending)
    /\ UNCHANGED <<script, stepno, pending, passed>>
    /\ UNCHANGED <<command, proc, next_id, pc, op, req_id, closeLog, waited>>
    /\ UNCHANGED <<wire, outq, errq, emitted>>
    /\ UNCHANGED <<calls, notifies, blanks, discarded, tool_errors>>
    /\ UNCHANGED <<caller2Vars, peer, abandoned>>

\* ------------------------------------------- two threads on one client
\* request() called from a second thread while the first thread's call is in
\* progress.  Nothing in the class serialises the two: they share next_id,
\* the stdin pipe and the stdout pipe.  The first thread runs request_send,
\* request_readline and request_drain; the actions below are the same code
\* run by the second thread, with its own locals.

\* Line 54: req_id = self.next_id.
request2_take ==
    /\ pc2 = "idle"
    /\ next_id <= MaxCalls
    /\ req_id2' = next_id
    /\ pc2' = "took_id"
    /\ outcome2' = NoOutcome
    /\ UNCHANGED <<clientVars, callerVars, childVars, histVars>>
    /\ UNCHANGED <<scriptVars, answered, dropped, peer, abandoned>>

\* Lines 55-64: self.next_id += 1, then write and flush.  The increment is a
\* read and a write of the attribute with no lock: when the other thread has
\* incremented in between, the result is either one more than the present
\* value or one more than the value this thread read at line 54.
request2_send ==
    /\ pc2 = "took_id"
    /\ \E n \in {next_id_after(next_id), next_id_after(req_id2)} : next_id' = n
    /\ calls' = calls + 1
    /\ IF write_fails
       THEN /\ pc2' = "idle"
            /\ outcome2' = [Raise("request", write_exc, "write") EXCEPT !.id = req_id2]
            /\ wire' = wire
       ELSE /\ pc2' = "req_read"
            /\ outcome2' = NoOutcome
            /\ wire' = Append(wire, Request(req_id2, MethodOf("request")))
    /\ UNCHANGED <<command, proc, stdin_closed, callerVars>>
    /\ UNCHANGED <<child, sigterm, outq, out_eof, errq, err_eof, emitted>>
    /\ UNCHANGED <<notifies, closes, blanks, discarded, tool_errors>>
    /\ UNCHANGED <<scriptVars, req_id2, answered, dropped, peer, abandoned>>

\* Lines 67-81 in the second thread: one turn of its read loop, on the same
\* stdout pipe.
request2_readline ==
    /\ pc2 = "req_read"
    /\ IF outq = << >>
       THEN /\ out_eof
            /\ pc2' = "req_drain"
            /\ UNCHANGED <<outcome2, outq, dropped>>
       ELSE LET line == Head(outq)
                serial == HeadSerial
                verdict == readline_verdict(line, req_id2)
            IN  /\ outq' = Tail(outq)
                /\ CASE verdict = "skip" ->
                          UNCHANGED <<pc2, outcome2, dropped>>
                     [] verdict = "decode" ->
                          /\ pc2' = "idle"
                          /\ outcome2' = [Raise("request", "JSONDecodeError", "json.loads(line)")
                                            EXCEPT !.id = req_id2, !.serial = serial]
                          /\ UNCHANGED dropped
                     [] verdict = "attr" ->
                          /\ pc2' = "idle"
                          /\ outcome2' = [Raise("request", "AttributeError", "resp.get")
                                            EXCEPT !.id = req_id2, !.serial = serial]
                          /\ UNCHANGED dropped
                     [] verdict = "return" ->
                          /\ pc2' = "idle"
                          /\ outcome2' = [Return("request") EXCEPT !.id = req_id2,
                                                                  !.resp = line, !.serial = serial]
                          /\ UNCHANGED dropped
                     [] OTHER ->
                          /\ dropped' = dropped \cup {serial}
                          /\ UNCHANGED <<pc2, outcome2>>
    /\ UNCHANGED <<clientVars, callerVars, histVars>>
    /\ UNCHANGED <<child, sigterm, wire, out_eof, errq, err_eof, emitted>>
    /\ abandoned' = IF pc2' = "idle" /\ outcome2'.kind = "raise"
                    THEN abandoned \cup {req_id2} ELSE abandoned
    /\ UNCHANGED <<scriptVars, req_id2, answered, peer>>

\* Lines 69-73 in the second thread.
request2_drain ==
    /\ pc2 = "req_drain"
    /\ err_eof
    /\ pc2' = "idle"
    /\ outcome2' = [Raise("request", "RuntimeError", "exited")
                      EXCEPT !.id = req_id2, !.err = stderr_read(errq)]
    /\ errq' = << >>
    /\ UNCHANGED <<clientVars, callerVars, histVars>>
    /\ UNCHANGED <<child, sigterm, wire, outq, out_eof, err_eof, emitted>>
    /\ abandoned' = abandoned \cup {req_id2}
    /\ UNCHANGED <<scriptVars, req_id2, answered, dropped, peer>>

\* The server answers a request it has received and not yet answered, with
\* one line carrying the request's id; it answers in any order.
ServerAnswer(k) ==
    /\ child = "running"
    /\ ~out_eof
    /\ emitted < MaxLines
    /\ Len(outq) < MaxPipe
    /\ k \in 1..Len(wire)
    /\ wire[k].kind = "request"
    /\ \A s \in 1..Len(answered) : answered[s] # k
    /\ outq' = Append(outq, ObjLine(IntId(wire[k].id)))
    /\ emitted' = emitted + 1
    /\ answered' = Append(answered, k)
    /\ UNCHANGED <<clientVars, callerVars, histVars>>
    /\ UNCHANGED <<child, sigterm, wire, out_eof, errq, err_eof>>
    /\ UNCHANGED <<scriptVars, pc2, req_id2, outcome2, dropped, peer, abandoned>>

\* ----------------------------------------------------------- two clients
\* A second McpStdioClient, started by another call of start() with a command
\* and a child of its own.  Its fields are those of the dataclass; sent is what
\* its child has received.
PeerCommand == <<"java", "-jar", "other.jar">>
PeerProc == "popen2"

\* self.next_id as the second instance reads it: the instance's own attribute,
\* set by the dataclass __init__ from the default 1.  (peer_next_id_shared: one
\* counter on the class, read by every instance)
peer_next_id_shared ==
    next_id

peer_next_id ==
    peer.next_id

\* McpStdioClient.start(cmd) for the second client: cls(command, proc).
peer_start(launched) ==
    /\ peer = NoPeer
    /\ peer' = IF launched
               THEN [command |-> PeerCommand, proc |-> PeerProc,
                     next_id |-> FirstId, sent |-> << >>]
               ELSE peer
    /\ UNCHANGED <<clientVars, callerVars, childVars, histVars, scriptVars, caller2Vars, abandoned>>

\* request() on the second client, its child answering at once: the request
\* is written with the client's next identifier, which is incremented.
peer_request ==
    /\ peer # NoPeer
    /\ peer_next_id <= MaxCalls
    /\ peer' = [peer EXCEPT !.next_id = next_id_after(peer_next_id),
                            !.sent = Append(@, Request(peer_next_id, MethodOf("request")))]
    /\ UNCHANGED <<clientVars, callerVars, childVars, histVars, scriptVars, caller2Vars, abandoned>>

\* ------------------------------------------------ the stderr pipe filling up
\* Popen is given stderr=PIPE (line 27) and nothing reads that pipe before
\* stdout is at end of stream.  A pipe holds a bounded amount (MaxErr chunks
\* here): a child that writes one more blocks in its write until a reader
\* makes room or the child is killed.

\* The child writes to stderr with the pipe full and nobody reading: it
\* blocks, and writes and reads nothing else while it is blocked.
ChildBlocksOnStderr ==
    /\ child = "running"
    /\ ~err_eof
    /\ Len(errq) >= MaxErr
    /\ pc # "req_drain"
    /\ child' = "stderr_blocked"
    /\ UNCHANGED <<clientVars, callerVars, histVars>>
    /\ UNCHANGED <<sigterm, wire, outq, out_eof, errq, err_eof, emitted>>
    /\ UNCHANGED elseVars

\* Line 72 in progress: stderr.read() takes what the pipe holds, and the
\* blocked write of the child completes.
ChildUnblocked ==
    /\ child = "stderr_blocked"
    /\ pc = "req_drain"
    /\ child' = "running"
    /\ errq' = Append(errq, Len(errq) + 1)
    /\ UNCHANGED <<clientVars, callerVars, histVars>>
    /\ UNCHANGED <<sigterm, wire, outq, out_eof, err_eof, emitted>>
    /\ UNCHANGED elseVars

\* ---------------------------------------------------------- specifications
\* The client's RPC operations, one at a time, against a child that writes
\* any lines in any order.
Next ==
    \/ \E o \in {"request", "call_tool", "initialize"} : request_send(o)
    \/ request_readline
    \/ request_drain
    \/ \E line \in Lines : ServerEmit(line)
    \/ ServerStderr
    \/ ChildCloseStdout
    \/ ChildExit

Spec == Init /\ [][Next]_vars

\* The same, with the client's thread scheduled: a readline() or a
\* stderr.read() that can return does return.  Nothing obliges the child to
\* write, to close a stream or to exit.
SpecLive ==
    Init /\ [][Next]_vars /\ WF_vars(request_readline) /\ WF_vars(request_drain)

\* close() among requests and notifications, with a server that only answers.
NextClose ==
    \/ close_stdin
    \/ close_terminate
    \/ close_wait_tick
    \/ close_wait
    \/ close_kill
    \/ request_send("request")
    \/ request_readline
    \/ request_drain
    \/ notify
    \/ ServerReply
    \/ ServerStderr
    \/ ChildExit

SpecClose == Init /\ [][NextClose]_vars

\* One run of one consumer script, main() from start() to the exit of the
\* process, against a child that can exit at any moment.
NextScript ==
    \/ \E s \in Scripts : script_start(s)
    \/ script_call
    \/ script_tail
    \/ script_finally
    \/ ChildExit

SpecScript == InitScript /\ [][NextScript]_vars

\* Two threads calling request() on one client at the same time, with a
\* server that answers every request once.
NextOverlap ==
    \/ request_send("request")
    \/ request_readline
    \/ request_drain
    \/ request2_take
    \/ request2_send
    \/ request2_readline
    \/ request2_drain
    \/ \E k \in 1..(MaxCalls + 1) : ServerAnswer(k)
    \/ ChildExit

SpecOverlap == Init /\ [][NextOverlap]_vars

\* Two clients, each started by its own call of start() and used in turn by
\* one caller.
NextPeers ==
    \/ (\E launched \in BOOLEAN : start(TheCommand, launched)) /\ UNCHANGED scriptVars
    \/ proc # NoProc /\ request_send("request")
    \/ request_readline
    \/ request_drain
    \/ ServerReply
    \/ ChildExit
    \/ \E launched \in BOOLEAN : peer_start(launched)
    \/ peer_request

SpecPeers == InitScript /\ [][NextPeers]_vars

\* One request() at a time against a child whose stderr pipe has a capacity.
NextStderr ==
    \/ request_send("request")
    \/ request_readline
    \/ request_drain
    \/ ServerReply
    \/ ServerStderr
    \/ ChildBlocksOnStderr
    \/ ChildUnblocked
    \/ ChildCloseStdout
    \/ ChildExit

SpecStderr == Init /\ [][NextStderr]_vars

\* ------------------------------------------------------------------ claims
\* The requests among the messages the child has received.
WireRequests == SelectSeq(wire, LAMBDA m : m.kind = "request")
\* The operation that just ended got a response from request().
GotResponse == outcome.resp.kind = "obj"

\* C1: a request() that returns normally returns a JSON object whose "id"
\* compares equal (Python ==) to the identifier of the request it just sent,
\* which is the last request on the wire, whatever lines the child wrote.
C1_IdRoundTrip ==
    (outcome.kind = "return" /\ outcome.op = "request") =>
        /\ GotResponse
        /\ outcome.resp.id.t \in {"int", "bool"}
        /\ outcome.resp.id.v = outcome.id
        /\ WireRequests # << >>
        /\ WireRequests[Len(WireRequests)].id = outcome.resp.id.v

\* C1 witness: the second request returned its response after the read loop
\* had dropped a line with another id.
C1_Witness ==
    /\ outcome.kind = "return"
    /\ outcome.op = "request"
    /\ outcome.id = 2
    /\ outcome.resp = ObjLine(IntId(2))
    /\ outcome.serial - 1 \in discarded

\* C2: the n-th invocation of request() uses identifier n (from 1), and the
\* identifiers of the requests on the wire are strictly increasing, so none
\* is sent twice.
C2_IdsIncrease ==
    /\ next_id = FirstId + calls
    /\ calls > 0 => req_id = calls
    /\ \A i \in 1..Len(WireRequests) : WireRequests[i].id \in FirstId..calls
    /\ \A i, j \in 1..Len(WireRequests) :
          i < j => WireRequests[i].id < WireRequests[j].id

\* C2 witness: two requests are on the wire, sent by the first and the second
\* invocation.
C2_Witness ==
    /\ calls = 2
    /\ Len(WireRequests) = 2
    /\ WireRequests[1].id = 1
    /\ WireRequests[2].id = 2

\* A step in which request() reads the line at the head of the stdout pipe.
ReadsLine == pc = "req_read" /\ outq # << >> /\ Len(outq') < Len(outq)
\* The line at the head of the pipe is a JSON object whose id is not the
\* awaited one (absent, or another value).
HeadMismatched ==
    /\ Head(outq).kind = "obj"
    /\ ~(Head(outq).id.t \in {"int", "bool"} /\ Head(outq).id.v = req_id)

\* C3: a line whose id differs from the awaited id is consumed and dropped:
\* the call does not end on it and keeps reading for the same id, no field of
\* the client keeps it, and a line once dropped is never the one a call
\* returns.
C3_MismatchDiscarded ==
    /\ [][(ReadsLine /\ HeadMismatched) =>
            /\ outq' = Tail(outq)
            /\ pc' = "req_read"
            /\ req_id' = req_id
            /\ outcome' = NoOutcome
            /\ UNCHANGED clientVars]_vars
    /\ [](GotResponse => outcome.serial \notin discarded)

\* C3 witness: a call returned the line with its id after dropping the line
\* before it, and the dropped line was addressed to another id.
C3_Witness ==
    /\ outcome.kind = "return"
    /\ outcome.op = "request"
    /\ outcome.id = 1
    /\ outcome.serial = 2
    /\ discarded = {1}

\* C4: call_tool on a response with an "error" member raises the tools/call
\* error and decodes nothing, also when content is present; on a response
\* without one whose result.content[0].text is a JSON document (the object of
\* the end-to-end scenario, or a number) it returns exactly that document,
\* parsed.
C4_CallToolUnwraps ==
    (outcome.op = "call_tool" /\ GotResponse) =>
        /\ outcome.body.has_error =>
              /\ outcome.kind = "raise"
              /\ outcome.site = "tools/call error"
              /\ outcome.doc = NoDoc
        /\ (~outcome.body.has_error /\ outcome.body.has_result
               /\ outcome.body.content # << >>
               /\ outcome.body.content[1].text = TextDoc) =>
              /\ outcome.kind = "return"
              /\ outcome.doc = [ok |-> TRUE, type |-> "object", success |-> TRUE,
                                grammarName |-> "G", ruleCount |-> 1]
        /\ (~outcome.body.has_error /\ outcome.body.has_result
               /\ outcome.body.content # << >>
               /\ outcome.body.content[1].text = TextScalar) =>
              /\ outcome.kind = "return"
              /\ outcome.doc = [ok |-> TRUE, type |-> "number", success |-> FALSE,
                                grammarName |-> "", ruleCount |-> 42]

\* C4 witness: call_tool returned the inner document of a well-formed
\* response.
C4_Witness ==
    /\ outcome.op = "call_tool"
    /\ outcome.kind = "return"
    /\ outcome.body = BodyOk
    /\ outcome.doc.grammarName = "G"
    /\ outcome.doc.ruleCount = 1

\* C5: after call_tool raised the tools/call error the client is idle, its
\* command, process handle and stdin are as before, and the next identifier is
\* the one after the failed call's.
C5_UsableAfterToolError ==
    (outcome.op = "call_tool" /\ outcome.site = "tools/call error") =>
        /\ pc = "idle"
        /\ command = TheCommand
        /\ proc = TheProc
        /\ ~stdin_closed
        /\ next_id = outcome.id + 1

\* C5 witness: the call after a call_tool that raised the tools/call error
\* returned the response carrying its own identifier.
C5_Witness ==
    /\ 1 \in tool_errors
    /\ outcome.kind = "return"
    /\ outcome.id = 2
    /\ outcome.resp = ObjLine(IntId(2))

\* C6: reading a blank line never ends the call: the line is consumed and the
\* call keeps reading for the same id; and the response a call returns right
\* after blank lines is the one with the awaited id.
C6_BlankSkipped ==
    /\ [][(ReadsLine /\ Head(outq).kind = "blank") =>
            /\ outq' = Tail(outq)
            /\ pc' = "req_read"
            /\ req_id' = req_id
            /\ outcome' = NoOutcome]_vars
    /\ []((outcome.kind = "return" /\ outcome.serial - 1 \in blanks) =>
            outcome.resp.id.v = outcome.id)

\* C6 witness: a call returned its response after skipping two blank lines.
C6_Witness ==
    /\ outcome.kind = "return"
    /\ outcome.op = "request"
    /\ outcome.serial = 3
    /\ blanks = {1, 2}
    /\ outcome.resp = ObjLine(IntId(outcome.id))

\* The stdout pipe is empty and its writing end is closed: readline() returns "".
AtEndOfStream == outq = << >> /\ out_eof

\* C7: a request() that finds end of stream on stdout ends only by raising the
\* "exited" RuntimeError, whose text holds everything the stderr stream held,
\* read to its end; it returns no response.
C7_TransportClosed ==
    /\ [][(pc = "req_read" /\ AtEndOfStream /\ pc' # pc) => pc' = "req_drain"]_vars
    /\ [][(pc = "req_drain" /\ pc' # pc) =>
            /\ pc' = "idle"
            /\ err_eof
            /\ outcome'.kind = "raise"
            /\ outcome'.exc = "RuntimeError"
            /\ outcome'.site = "exited"
            /\ outcome'.err = errq
            /\ outcome'.resp = NoLine
            /\ errq' = << >>]_vars

\* C7 witness: the child wrote to stderr and closed its output before writing
\* any line, and request() raised with the stderr text.
C7_Witness ==
    /\ outcome.kind = "raise"
    /\ outcome.site = "exited"
    /\ emitted = 0
    /\ outcome.err = <<1>>

\* C8: reading a non-blank line that is not JSON ends the call at once with
\* JSONDecodeError; nothing after it is read.
C8_MalformedFatal ==
    [][(ReadsLine /\ Head(outq).kind = "bad") =>
         /\ outq' = Tail(outq)
         /\ pc' = "idle"
         /\ outcome'.kind = "raise"
         /\ outcome'.exc = "JSONDecodeError"
         /\ outcome'.id = req_id]_vars

\* C8 witness: the call failed on a malformed line while the response with
\* its id was next in the stream, unread.
C8_Witness ==
    /\ outcome.kind = "raise"
    /\ outcome.exc = "JSONDecodeError"
    /\ outcome.site = "json.loads(line)"
    /\ outq # << >>
    /\ Head(outq) = ObjLine(IntId(outcome.id))

\* C9: close() never raises: every call of it that has ended returned, be it
\* the first or a later one, with the child running or exited, whichever of
\* its steps failed.
C9_CloseNeverRaises ==
    /\ outcome.op = "close" => outcome.kind = "return"
    /\ outcome.site \notin {"stdin.close", "terminate", "wait", "kill"}

\* C9 witness: close() was called twice in a row and nothing else; the second
\* call timed out waiting, failed to kill, and returned.
C9_Witness ==
    /\ closes = 2
    /\ calls = 0
    /\ notifies = 0
    /\ pc = "idle"
    /\ outcome = Return("close")
    /\ Len(closeLog) = 4
    /\ ~closeLog[3].ok
    /\ ~closeLog[4].ok

\* C10: close() attempts its steps in order whatever failed before: closing
\* stdin comes first, terminate is attempted next even when that failed, and
\* the wait is attempted next even when terminate failed.
C10_EveryStepAttempted ==
    closeLog # << >> =>
        /\ closeLog[1].step = "stdin.close"
        /\ pc # "close_terminate" =>
              /\ Len(closeLog) >= 2
              /\ closeLog[2].step = "terminate"
        /\ pc \notin {"close_terminate", "close_wait"} =>
              /\ Len(closeLog) >= 3
              /\ closeLog[3].step = "wait"

\* C10 witness: close() returned after closing stdin failed and terminate
\* failed, having gone on to the wait.
C10_Witness ==
    /\ pc = "idle"
    /\ outcome = Return("close")
    /\ Len(closeLog) >= 3
    /\ ~closeLog[1].ok
    /\ ~closeLog[2].ok
    /\ closeLog[2].step = "terminate"
    /\ closeLog[3].step = "wait"

\* The order of the statements of close().
CloseOrder == <<"stdin.close", "terminate", "wait", "kill">>

\* C11: close() closes stdin, then asks the child to terminate, then waits for
\* its exit for at most WaitTimeout; when the wait ends, kill() is called if
\* and only if the child is still running, which happens only with the whole
\* timeout spent; a child that exited within the timeout is never killed.
C11_Escalation ==
    /\ [](/\ waited <= WaitTimeout
          /\ Len(closeLog) <= 4
          /\ \A i \in 1..Len(closeLog) : closeLog[i].step = CloseOrder[i]
          /\ (pc = "close_kill" \/ Len(closeLog) = 4) <=>
                (Len(closeLog) >= 3 /\ ~closeLog[3].ok)
          /\ (Len(closeLog) >= 3 /\ ~closeLog[3].ok) => waited = WaitTimeout)
    /\ [][(pc = "close_wait" /\ pc' # "close_wait") =>
            /\ (pc' = "close_kill") <=> (child = "running")
            /\ child = "running" => waited = WaitTimeout
            /\ child = "exited" => (pc' = "idle" /\ Len(closeLog') = 3)]_vars

\* C11 witness: close() returned after the child, asked to terminate, stayed
\* alive for the whole timeout and was killed.
C11_Witness ==
    /\ pc = "idle"
    /\ outcome = Return("close")
    /\ sigterm
    /\ waited = WaitTimeout
    /\ Len(closeLog) = 4
    /\ closeLog[3] = CloseStep("wait", FALSE)
    /\ closeLog[4] = CloseStep("kill", TRUE)
    /\ child = "exited"

\* C12: initialize() writes one initialize request and reads its response;
\* when the response has an "error" member it raises the "initialize failed"
\* RuntimeError built from that response, the initialize request is the last
\* thing the child received (no notifications/initialized, no second
\* initialize), and no further call has been made.
C12_HandshakeError ==
    /\ (pc = "req_read" /\ op = "initialize") =>
          wire[Len(wire)] = Request(req_id, "initialize")
    /\ (outcome.op = "initialize" /\ GotResponse /\ outcome.body.has_error) =>
          /\ outcome.kind = "raise"
          /\ outcome.exc = "RuntimeError"
          /\ outcome.site = "initialize failed"
          /\ outcome.resp.id.v = outcome.id
          /\ pc = "idle"
          /\ wire[Len(wire)] = Request(outcome.id, "initialize")
          /\ Cardinality({i \in 1..Len(wire) : wire[i].method = "initialize"
                                                /\ wire[i].id = outcome.id}) = 1
          /\ calls = outcome.id
          /\ next_id = outcome.id + 1

\* C12 witness: the first call was initialize(), the response carried an
\* error, and the call raised with only the request on the wire.
C12_Witness ==
    /\ outcome.op = "initialize"
    /\ outcome.site = "initialize failed"
    /\ outcome.body = BodyErr
    /\ wire = <<Request(1, "initialize")>>

\* C13: when initialize() returns, the child has received the initialize
\* request and, right after it, one notifications/initialized, and request()
\* read nothing after the response; every notifications/initialized on the
\* wire directly follows an initialize request, and every request with a
\* later identifier comes after it.
C13_InitializedNotification ==
    /\ (outcome.op = "initialize" /\ outcome.kind = "return") =>
          /\ pc = "idle"
          /\ Len(wire) >= 2
          /\ wire[Len(wire)] = Notification("notifications/initialized")
          /\ wire[Len(wire) - 1] = Request(outcome.id, "initialize")
          /\ outcome.serial = emitted - Len(outq)
    /\ (outcome.op = "initialize" /\ GotResponse /\ ~outcome.body.has_error
           /\ outcome.kind = "raise") => outcome.site = "write"
    /\ \A i \in 1..Len(wire) :
          wire[i].kind = "notification" =>
             /\ i > 1
             /\ wire[i - 1].kind = "request"
             /\ wire[i - 1].method = "initialize"
             /\ \A j \in 1..Len(wire) :
                   (wire[j].kind = "request" /\ wire[j].id > wire[i - 1].id) => j > i

\* C13 witness: initialize() returned and a later request is on the wire,
\* after the notification.
C13_Witness ==
    /\ Len(wire) = 3
    /\ wire[1] = Request(1, "initialize")
    /\ wire[2] = Notification("notifications/initialized")
    /\ wire[3].kind = "request"
    /\ wire[3].id = 2

\* A step that is one whole invocation of notify().
NotifyStep == notifies' = notifies + 1

\* C14: notify() is over in the step that writes: it reads nothing from the
\* child's stdout or stderr, leaves the caller idle, and ends by returning or
\* by raising from its write, never for want of a reply, whatever the child
\* has or has not written.
C14_NotifyNoRead ==
    [][NotifyStep =>
         /\ outq' = outq
         /\ errq' = errq
         /\ pc' = "idle"
         /\ outcome'.op = "notify"
         /\ outcome'.kind \in {"return", "raise"}
         /\ outcome'.kind = "raise" => outcome'.site = "write"
         /\ outcome'.resp = NoLine]_vars

\* C14 witness: notify() returned with a running child that has never written
\* a line.
C14_Witness ==
    /\ outcome = Return("notify")
    /\ child = "running"
    /\ emitted = 0
    /\ outq = << >>
    /\ wire # << >>
    /\ wire[Len(wire)] = Notification("notifications/custom")

\* C15 as stated: a notify() invoked when the child has exited returns
\* normally.
C15_NotifyReturnsWhenChildGone ==
    [][(NotifyStep /\ child = "exited") => outcome'.kind = "return"]_vars

\* C15 as amended: notify() learns of a delivery failure from its own write
\* and from nothing else: invoked with the child exited or with stdin closed
\* it raises from the write (ValueError on the closed file, BrokenPipeError on
\* the broken pipe) and the child receives nothing; otherwise it returns and
\* the notification is on the wire.
C15_NotifyWriteFailure ==
    [][NotifyStep =>
         IF stdin_closed \/ child = "exited"
         THEN /\ outcome'.kind = "raise"
              /\ outcome'.site = "write"
              /\ outcome'.exc = (IF stdin_closed THEN "ValueError" ELSE "BrokenPipeError")
              /\ wire' = wire
         ELSE /\ outcome' = Return("notify")
              /\ wire' = Append(wire, Notification("notifications/custom"))]_vars

\* C15 witness: notify() raised BrokenPipeError: the child had exited and
\* stdin was open.
C15_Witness ==
    /\ outcome.op = "notify"
    /\ outcome.kind = "raise"
    /\ outcome.exc = "BrokenPipeError"
    /\ child = "exited"
    /\ ~stdin_closed
    /\ closes = 0

\* C16: call_tool on a response without "error" raises RuntimeError and
\* returns no document when "result" is absent, when result.content is absent
\* or empty (the "no content" error), and when content[0].text is missing or
\* not a string (the "unexpected payload" error).
C16_MalformedResponse ==
    (outcome.op = "call_tool" /\ GotResponse /\ ~outcome.body.has_error) =>
        /\ (~outcome.body.has_result \/ outcome.body.content = << >>) =>
              /\ outcome.kind = "raise"
              /\ outcome.exc = "RuntimeError"
              /\ outcome.site = "no content"
              /\ outcome.doc = NoDoc
        /\ (outcome.body.content # << >> /\ ~outcome.body.content[1].has_text) =>
              /\ outcome.kind = "raise"
              /\ outcome.exc = "RuntimeError"
              /\ outcome.site = "unexpected payload"
              /\ outcome.doc = NoDoc

\* C16 witness: call_tool raised the "unexpected payload" error on a response
\* whose first content element has no text.
C16_Witness ==
    /\ outcome.op = "call_tool"
    /\ outcome.body = BodyNoText
    /\ outcome.kind = "raise"
    /\ outcome.site = "unexpected payload"

\* C17 as stated: when content[0].text is a string that is not JSON,
\* call_tool fails with the kind of error it raises for absent or empty
\* content and for a missing text.
C17_BadTextSameErrorKind ==
    (outcome.op = "call_tool" /\ GotResponse /\ ~outcome.body.has_error
        /\ outcome.body.content # << >> /\ outcome.body.content[1].has_text
        /\ ~json_loads(outcome.body.content[1].text).ok) =>
        /\ outcome.kind = "raise"
        /\ outcome.exc = "RuntimeError"

\* C17 as amended: when content[0].text is a string that is not JSON,
\* call_tool fails and returns no document, with the JSONDecodeError of
\* json.loads, not the RuntimeError of the shape checks; the client stays
\* usable.
C17_BadTextDecodeError ==
    (outcome.op = "call_tool" /\ GotResponse /\ ~outcome.body.has_error
        /\ outcome.body.content # << >> /\ outcome.body.content[1].has_text
        /\ ~json_loads(outcome.body.content[1].text).ok) =>
        /\ outcome.kind = "raise"
        /\ outcome.exc = "JSONDecodeError"
        /\ outcome.site = "json.loads(text)"
        /\ outcome.doc = NoDoc
        /\ pc = "idle"
        /\ next_id = outcome.id + 1

\* C17 witness: call_tool raised JSONDecodeError on a text that is not JSON.
C17_Witness ==
    /\ outcome.op = "call_tool"
    /\ outcome.body = BodyBadText
    /\ outcome.kind = "raise"
    /\ outcome.exc = "JSONDecodeError"

\* The line request() waits for is in the stdout pipe.
AwaitedLineWritten ==
    \E i \in 1..Len(outq) : outq[i].kind = "obj" /\ id_matches(outq[i], req_id)
\* request() is in progress.
InRequest == pc \in {"req_read", "req_drain"}

\* C18: a request() in progress ends (by returning or by raising) once the
\* child has written a line with the awaited id or has closed its stdout, and
\* it ends only on reading a line or on the end of the stream, there being no
\* timeout.
C18_RequestCompletes ==
    /\ (InRequest /\ (AwaitedLineWritten \/ out_eof)) ~> (pc = "idle")
    /\ [][(pc = "req_read" /\ pc' # "req_read") => (outq # << >> \/ out_eof)]_vars

\* The places of method m in the log of the client methods main() invoked.
Invocations(m) == {i \in 1..Len(slog) : slog[i] = m}
\* start() returned a client to main().
Started == stepno >= 1

\* C19: every script invokes start first, then initialize, then its
\* request/call_tool calls, then close: initialize is invoked at most once,
\* exactly once by the time a script that got its client exits, and before
\* every request and call_tool; a tools/list or tools/call request reaches
\* the child only after the initialize request; close comes last, and after
\* it nothing is invoked and nothing is sent.
C19_ScriptOrder ==
    /\ [](/\ slog # << >> => slog[1] = "start"
          /\ Len(slog) >= 2 => slog[2] = "initialize"
          /\ Cardinality(Invocations("start")) <= 1
          /\ Cardinality(Invocations("initialize")) <= 1
          /\ (spc = "exit" /\ Started) => Cardinality(Invocations("initialize")) = 1
          /\ \A i \in Invocations("request") \cup Invocations("call_tool") :
                /\ \E j \in Invocations("initialize") : j < i
                /\ \A k \in Invocations("close") : i < k
          /\ \A k \in Invocations("close") : k = Len(slog)
          /\ \A i \in 1..Len(wire) :
                wire[i].method \in {"tools/list", "tools/call"} =>
                   (i > 1 /\ wire[1] = Request(FirstId, "initialize")))
    /\ [][closes > 0 => (wire' = wire /\ calls' = calls /\ slog' = slog)]_vars

\* C19 witness: mcp_calculator_demo.py ran to its end: start, initialize,
\* tools/list, four tool calls, close, exit status 0.
C19_Witness ==
    /\ script = "calculator"
    /\ spc = "exit"
    /\ status = 0
    /\ slog = <<"start", "initialize", "request", "call_tool", "call_tool",
                "call_tool", "call_tool", "close">>
    /\ Len(WireRequests) = 6

\* C20: a script that got its client from start() has executed close()
\* exactly once when it exits, however it left its try block (return 0, an
\* early return 1, an exception of initialize, request or call_tool, or of
\* its own statements); close() is not executed before the try block is left
\* and never twice.
C20_CloseOnEveryPath ==
    /\ closes <= 1
    /\ closes = Cardinality(Invocations("close"))
    /\ (spc = "exit" /\ Started) =>
          /\ closes = 1
          /\ stdin_closed
          /\ pending.kind \in {"return", "raise"}
          /\ status = ExitStatus(pending)
    /\ spc \in {"idle", "try", "finally"} => closes = 0
    /\ ~Started => closes = 0

\* C20 witness: mcp_calculator_demo.py exited on the exception of a failed
\* handshake, which nothing in main() catches, with close() executed once.
C20_Witness ==
    /\ script = "calculator"
    /\ spc = "exit"
    /\ pending = PendingRaise("RuntimeError")
    /\ slog = <<"start", "initialize", "close">>
    /\ wire = <<Request(1, "initialize")>>
    /\ closes = 1
    /\ status = 1

\* A step that is one whole invocation of start().
StartStep == Cardinality(Invocations("start"))' = Cardinality(Invocations("start")) + 1

\* C21: start() ends in one of two ways: it returns, and then there is a
\* client holding the command and the handle of a child that is running with
\* stdin, stdout and stderr open and the identifier counter at 1; or it raises
\* the error of the launch, and then there is no client and no child.  The
\* launch is tried once: start() is never invoked a second time by a script,
\* whose run ends on the failure.
C21_StartOrLaunchError ==
    /\ [][StartStep =>
            /\ proc = NoProc
            /\ child = "unborn"
            /\ outcome'.op = "start"
            /\ \/ /\ outcome'.kind = "return"
                  /\ proc' = TheProc
                  /\ command' = TheCommand
                  /\ next_id' = FirstId
                  /\ child' = "running"
                  /\ ~stdin_closed' /\ ~out_eof' /\ ~err_eof'
               \/ /\ outcome'.kind = "raise"
                  /\ proc' = NoProc
                  /\ command' = NoCommand
                  /\ child' = "unborn"
                  /\ spc' = "exit"]_vars
    /\ [](Cardinality(Invocations("start")) <= 1)
    /\ [](proc = NoProc => (child = "unborn" /\ calls = 0 /\ closes = 0 /\ wire = << >>))

\* C21 witness: the launch failed; the script ended with the exception, with
\* no client, no child and nothing else invoked.
C21_Witness ==
    /\ outcome = Raise("start", "OSError", "Popen")
    /\ spc = "exit"
    /\ proc = NoProc
    /\ child = "unborn"
    /\ slog = <<"start">>
    /\ status = 1

\* The id carried by the server's line with the given serial number.
AnsweredId(s) == wire[answered[s]].id

\* Every request on the wire has been answered by the server.
AllAnswered ==
    \A k \in 1..Len(wire) :
        wire[k].kind = "request" => \E s \in 1..Len(answered) : answered[s] = k

\* A thread waiting for the given id has nothing to wait for: the stream is
\* open and no line in the pipe carries its id.
Starved(id) ==
    /\ ~out_eof
    /\ \A i \in 1..Len(outq) : ~id_matches(outq[i], id)

\* C22: with two overlapping request() calls on one client, a thread that
\* reads a response whose id is not its own drops it, and the line is never
\* delivered to either thread afterwards; a thread whose response is no
\* longer in the pipe stays in its read loop for as long as the stream is
\* open, though the server has answered both requests.
C22_OverlapLosesResponse ==
    /\ [](outcome.kind = "return" => outcome.serial \notin (discarded \cup dropped))
    /\ [](outcome2.kind = "return" => outcome2.serial \notin (discarded \cup dropped))
    /\ [][(pc = "req_read" /\ Starved(req_id)) => pc' = "req_read"]_vars
    /\ [][(pc2 = "req_read" /\ Starved(req_id2)) => pc2' = "req_read"]_vars

\* The second thread has read and dropped the first thread's response and has
\* returned with its own; the server has answered both requests and the first
\* thread is in its read loop with nothing left to read.
C22_Witness ==
    /\ pc = "req_read"
    /\ pc2 = "idle"
    /\ outcome2.kind = "return"
    /\ req_id # req_id2
    /\ \E s \in dropped : AnsweredId(s) = req_id
    /\ Len(answered) = 2
    /\ AllAnswered
    /\ outq = << >>
    /\ Starved(req_id)
    /\ child = "running"

\* C23 as stated: every value request() returns has exactly one of "result"
\* and "error".
C23_ExactlyOneMember ==
    (outcome.op = "request" /\ outcome.kind = "return") =>
        (outcome.body.has_error # outcome.body.has_result)

\* C23, amended: every value request() returns is a JSON object whose id
\* equals the request's id, returned with the members the child gave it;
\* request() does not look at "result" or "error", so a response with both or
\* with neither is returned like any other.
C23_ReturnsMatchingObject ==
    (outcome.op = "request" /\ outcome.kind = "return") =>
        /\ outcome.resp.kind = "obj"
        /\ outcome.resp.id.t \in {"int", "bool"}
        /\ outcome.resp.id.v = outcome.id
        /\ outcome.body \in Bodies
        /\ outcome.exc = NoOutcome.exc

\* C23 witness: request() returned a response carrying both an error and a
\* result.
C23_Witness ==
    /\ outcome.op = "request"
    /\ outcome.kind = "return"
    /\ outcome.body = BodyErrAndContent
    /\ outcome.resp = ObjLine(IntId(outcome.id))

\* initialize() has returned: its notification is on the wire.
Handshaken == \E i \in 1..Len(wire) : wire[i].method = "notifications/initialized"
\* A step that begins request(), alone or inside call_tool or initialize.
RequestStep == calls' = calls + 1 /\ pc = "idle"

\* C24: request() and call_tool() on a client whose handshake has not been
\* done, or has failed, are treated like any other call: the request goes out
\* with the next identifier and the caller waits for its response; the one
\* way the call can end at once is the failure of its own write.
C24_HandshakeNotEnforced ==
    /\ [][(RequestStep /\ ~Handshaken /\ ~write_fails) =>
             /\ pc' = "req_read"
             /\ req_id' = next_id
             /\ next_id' = next_id + 1
             /\ \E o \in {"request", "call_tool", "initialize"} :
                    /\ op' = o
                    /\ wire' = Append(wire, Request(next_id, MethodOf(o)))]_vars
    /\ [][(RequestStep /\ pc' = "idle") =>
             /\ write_fails
             /\ outcome'.site = "write"]_vars
    /\ [](~Handshaken /\ outcome.op \in {"request", "call_tool"} =>
             outcome.site \in {"", "write", "json.loads(line)", "resp.get", "exited",
                               "tools/call error", "no content", "unexpected payload",
                               "json.loads(text)"})

\* C24 witness: initialize() failed on the server's error, and the call_tool()
\* made next went out with identifier 2 and returned the tool's document.
C24_Witness ==
    /\ wire = <<Request(1, "initialize"), Request(2, "tools/call")>>
    /\ ~Handshaken
    /\ outcome.op = "call_tool"
    /\ outcome.kind = "return"
    /\ outcome.id = 2
    /\ outcome.doc.grammarName = "G"

\* C25: each request() and each notify() adds exactly one message to what the
\* child has received, in the step that starts the call (none when the write
\* itself fails); request() is in its read loop only with its own request
\* already received, having read nothing before the write; reading never
\* sends, and the only other message is notifications/initialized, sent by
\* initialize() when it ends.  Whatever a call sent is with the child when the
\* next call starts.
C25_OneLineWrittenAndFlushed ==
    /\ [][RequestStep =>
             /\ outq' = outq
             /\ errq' = errq
             /\ IF write_fails THEN wire' = wire
                ELSE /\ Len(wire') = Len(wire) + 1
                     /\ wire'[Len(wire')] = Request(next_id, MethodOf(op'))
                     /\ SubSeq(wire', 1, Len(wire)) = wire]_vars
    /\ [][NotifyStep =>
             /\ outq' = outq
             /\ errq' = errq
             /\ IF write_fails THEN wire' = wire
                ELSE /\ Len(wire') = Len(wire) + 1
                     /\ wire'[Len(wire')].kind = "notification"
                     /\ SubSeq(wire', 1, Len(wire)) = wire]_vars
    /\ [][(pc \in {"req_read", "req_drain"}) =>
             \/ wire' = wire
             \/ /\ op = "initialize"
                /\ pc' = "idle"
                /\ wire' = Append(wire, Notification("notifications/initialized"))]_vars
    /\ [](pc \in {"req_read", "req_drain"} =>
             \E k \in 1..Len(wire) :
                 /\ wire[k] = Request(req_id, MethodOf(op))
                 /\ \A j \in (k + 1)..Len(wire) : wire[j].kind = "notification")
    /\ [](Len(wire) <= calls + notifies)

\* C25 witness: a request, a notification and a second request, each with the
\* child before the next call began, the second request now waiting for its
\* response.
C25_Witness ==
    /\ Len(wire) = 3
    /\ wire[1] = Request(1, "tools/list")
    /\ wire[2].kind = "notification"
    /\ wire[3] = Request(2, "tools/list")
    /\ pc = "req_read"
    /\ calls = 2
    /\ notifies = 1

\* The identifiers of the requests the child has received, in order.
ObservedIds == [i \in 1..Len(WireRequests) |-> WireRequests[i].id]

TimesSent(id) == Cardinality({i \in 1..Len(wire) : wire[i].kind = "request" /\ wire[i].id = id})
\* The last call ended in a failure, or with a response holding an error.
Failed ==
    \/ outcome.kind = "raise"
    \/ outcome.kind = "return" /\ outcome.body.has_error

\* C27: every identifier taken by a request() is on the wire once, or not at
\* all when its write failed; a call that ended by raising (transport failure,
\* undecodable line, error response in call_tool or initialize) or with an
\* error response left the caller idle with the failure as its outcome and
\* its request sent at most once; the steps of the read loop, which are the
\* only steps after the write, send no request; a line that cannot be used
\* ends the call with its exception; and no line is handed to two calls.
C27_SentOnce ==
    /\ [](\A id \in 1..calls : TimesSent(id) <= 1)
    /\ [](\A i \in 1..Len(wire) : wire[i].kind = "request" => wire[i].id \in 1..calls)
    /\ []((Failed /\ outcome.op \in {"request", "call_tool", "initialize"}) =>
             /\ TimesSent(outcome.id) <= 1
             /\ TimesSent(outcome.id) = 0 <=>
                    (outcome.site = "write" /\ outcome.resp = NoLine))
    /\ [][(pc \in {"req_read", "req_drain"}) =>
             /\ WireRequests' = WireRequests
             /\ next_id' = next_id
             /\ pc' = "idle" => outcome'.kind \in {"raise", "return"}]_vars
    /\ [][(ReadsLine /\ Head(outq).kind \in {"bad", "nonobj"}) =>
             /\ pc' = "idle"
             /\ outcome'.kind = "raise"
             /\ outcome'.id = req_id
             /\ wire' = wire]_vars
    /\ [][(outcome.kind \in {"raise", "return"} /\ outcome'.serial # 0
              /\ outcome' # outcome) => outcome'.serial > outcome.serial]_vars

\* C27 witness: the first call_tool() raised on the server's error response
\* and the second failed on an undecodable line; each request is on the wire
\* once.
C27_Witness ==
    /\ tool_errors = {1}
    /\ outcome.id = 2
    /\ outcome.exc = "JSONDecodeError"
    /\ WireRequests = <<Request(1, "tools/call"), Request(2, "tools/call")>>

\* close() has returned and nothing has been called since.
CloseReturned == pc = "idle" /\ outcome = Return("close")
\* close() is in progress, past its first statement.
InClose == pc \in {"close_terminate", "close_wait", "close_kill"}

NotificationSent ==
    /\ Len(wire') = Len(wire) + 1
    /\ wire'[Len(wire')].kind = "notification"

\* C29: a notification has no id, and notify(), called by itself or at the
\* end of initialize(), leaves next_id as it was, whether or not its write
\* succeeds: every request the child receives has the identifier one after
\* the request before it, however many notifications lie between, so the
\* request that follows initialize()'s notification has identifier 2.
C29_NotifyConsumesNoId ==
    /\ [][(NotificationSent \/ NotifyStep) =>
             /\ next_id' = next_id
             /\ req_id' = req_id
             /\ calls' = calls]_vars
    /\ [](\A i \in 1..Len(wire) : wire[i].kind = "notification" => wire[i].id = NoId.v)
    /\ [](\A i \in 1..Len(wire) :
             wire[i].kind = "request" =>
                 wire[i].id = FirstId + Cardinality({j \in 1..(i - 1) : wire[j].kind = "request"}))
    /\ []((Len(wire) >= 3 /\ wire[1].method = "initialize"
             /\ wire[2].kind = "notification") => wire[3].id = 2)

\* C29 witness: initialize() returned, and the call made after it went out
\* with identifier 2, right after the notification.
C29_Witness ==
    /\ Len(wire) = 3
    /\ wire[1] = Request(1, "initialize")
    /\ wire[2] = Notification("notifications/initialized")
    /\ wire[3] = Request(2, "tools/call")
    /\ next_id = 3

\* The identifiers of the requests the second client's child has received.
PeerIds == [i \in 1..Len(peer.sent) |-> peer.sent[i].id]

\* C30: each client numbers its own requests 1, 2, 3, ...; a step that changes
\* a field of one client (command, process handle, next identifier) or what
\* its child has received changes nothing of the other; and the two clients
\* hold different process handles.
C30_PerInstanceState ==
    /\ [](\A i \in 1..Len(WireRequests) : WireRequests[i].id = i)
    /\ [](\A i \in 1..Len(peer.sent) : PeerIds[i] = i)
    /\ [](peer # NoPeer => peer.next_id = FirstId + Len(peer.sent))
    /\ [](proc # NoProc => next_id = FirstId + calls)
    /\ [][peer' # peer => UNCHANGED <<command, proc, next_id, wire>>]_vars
    /\ [][<<command, proc, next_id, wire>>' # <<command, proc, next_id, wire>> =>
             peer' = peer]_vars
    /\ []((proc # NoProc /\ peer # NoPeer) =>
             /\ peer.proc # proc
             /\ peer.command = PeerCommand
             /\ command = TheCommand)

\* C30 witness: both clients have sent two requests, numbered 1 and 2 by each.
C30_Witness ==
    /\ proc = TheProc
    /\ peer.proc = PeerProc
    /\ Len(WireRequests) = 2
    /\ WireRequests[2].id = 2
    /\ PeerIds = <<1, 2>>
    /\ next_id = 3
    /\ peer.next_id = 3

\* A step that takes something out of the stderr pipe.
StderrConsumed == Len(errq') < Len(errq)

\* C31: stderr is read in one place, by a request() that has found its stdout
\* at end of stream with nothing left to read: only that step takes anything
\* out of the stderr pipe or reports stderr text, and a call gets there only
\* from its read loop, at end of stream.  notify(), close() and a request()
\* that ends on a line leave the pipe as it is.
C31_StderrOnlyAfterEof ==
    /\ [][StderrConsumed =>
             /\ pc = "req_drain"
             /\ pc' = "idle"
             /\ AtEndOfStream
             /\ outcome'.site = "exited"]_vars
    /\ [][(pc' = "req_drain" /\ pc # "req_drain") =>
             /\ pc = "req_read"
             /\ AtEndOfStream]_vars
    /\ [](pc = "req_drain" => AtEndOfStream)
    /\ [](outcome.err # << >> => outcome.site = "exited")
    /\ [][(outcome' # outcome /\ outcome'.site # "exited") => errq' = errq]_vars

\* C31 witness: a notify() has been made, and a request() that found end of
\* stream has read what the child wrote to stderr into its error, leaving the
\* pipe empty.
C31_Witness ==
    /\ outcome.site = "exited"
    /\ outcome.err # << >>
    /\ errq = << >>
    /\ notifies = 1
    /\ pc = "idle"

\* A step of main() that makes one client call inside the try block.
ScriptCallStep == spc = "try" /\ Len(slog') = Len(slog) + 1
\* main() is past its try block, or never reached it.
AfterTry == spc \in {"finally", "exit"}

EndedOnLine == outcome.kind = "raise" /\ outcome.serial # 0 /\ outcome.resp = NoLine

\* C33: a line that is valid JSON and does not carry the awaited id (an object
\* without an id, or a JSON value that is not an object) is read past and
\* never fails the call: a request() that ends by raising on a line it read
\* has read a line that is not valid JSON.
C33_OnlyInvalidJsonFatal ==
    EndedOnLine => outcome.exc = "JSONDecodeError"

\* C34: request() takes its identifier and advances next_id before it writes:
\* the step that starts a call advances next_id by one whether or not the
\* write succeeds, no other step changes it, a call that ends by raising
\* (write failure, end of stream, unusable line) leaves next_id one past its
\* own identifier or further, and every identifier in use or on the wire is
\* below next_id, so none is given out twice.
C34_IdConsumedOnFailure ==
    /\ [][RequestStep => (req_id' = next_id /\ next_id' = next_id + 1)]_vars
    /\ [][next_id' # next_id => (RequestStep /\ next_id' = next_id + 1)]_vars
    /\ []((outcome.kind = "raise" /\ outcome.op \in {"request", "call_tool", "initialize"}) =>
             /\ outcome.id < next_id
             /\ TimesSent(outcome.id) <= 1)
    /\ [](\A i \in 1..Len(wire) : wire[i].kind = "request" => wire[i].id < next_id)
    /\ [](calls > 0 => req_id = next_id - 1)

\* C34 witness: the child exited without writing a line: the first call, whose
\* request it had received, ended on the end of the stream, and the second
\* failed at its write; they had identifiers 1 and 2, and the next is 3.
C34_Witness ==
    /\ calls = 2
    /\ emitted = 0
    /\ WireRequests = <<Request(1, "tools/list")>>
    /\ outcome.kind = "raise"
    /\ outcome.site = "write"
    /\ outcome.id = 2
    /\ next_id = 3

\* The line at the head of the pipe is a response to a request whose call has
\* been abandoned.
HeadLate ==
    /\ Head(outq).kind = "obj"
    /\ Head(outq).id.t \in {"int", "bool"}
    /\ Head(outq).id.v \in abandoned

\* C35: the identifier of an abandoned call is never the identifier of a later
\* call, so a response to it that arrives late is read by a later request()
\* as a line with another id: it is dropped, the call goes on reading, and
\* every call that returns does so on a line carrying its own identifier,
\* which is not one of the abandoned ones.
C35_LateResponseDiscarded ==
    /\ [](pc \in {"req_read", "req_drain"} => req_id \notin abandoned)
    /\ [](\A id \in abandoned : id < next_id /\ TimesSent(id) = 1)
    /\ [][(ReadsLine /\ HeadLate) =>
             /\ pc' = "req_read"
             /\ outcome' = NoOutcome
             /\ discarded' = discarded \cup {HeadSerial}
             /\ req_id' = req_id]_vars
    /\ []((outcome.kind = "return" /\ outcome.op \in {"request", "call_tool", "initialize"}) =>
             /\ outcome.resp.id.v = outcome.id
             /\ outcome.id \notin abandoned
             /\ outcome.serial \notin discarded)

\* C35 witness: the first call was abandoned on a line it could not use; the
\* second call is waiting, and the pipe holds the late response to the first
\* followed by its own.
C35_Witness ==
    /\ abandoned = {1}
    /\ child = "running"
    /\ pc = "req_read"
    /\ req_id = 2
    /\ outq = <<ObjLine(IntId(1)), ObjLine(IntId(2))>>

\* The client is inside request(), blocked in readline() on an open and empty
\* stdout.
BlockedReading == pc = "req_read" /\ outq = << >> /\ ~out_eof

\* C36: the client is never blocked reading stdout inside request() while the
\* child is blocked writing to a full stderr pipe.
C36_NoStderrDeadlock ==
    ~(BlockedReading /\ child = "stderr_blocked" /\ Len(errq) >= MaxErr)

\* C37: once close() has been called, stdin is closed for good, and every
\* request() and notify() ends in the step that starts it, by raising from
\* its write (ValueError on the closed stdin), with nothing added to what the
\* child has received and nothing read; no call made after close() returns a
\* value or waits for a line.
C37_FailsAfterClose ==
    /\ [][(closes > 0 /\ (RequestStep \/ NotifyStep)) =>
             /\ pc' = "idle"
             /\ outcome'.kind = "raise"
             /\ outcome'.exc = "ValueError"
             /\ outcome'.site = "write"
             /\ wire' = wire
             /\ outq' = outq
             /\ errq' = errq]_vars
    /\ [](closes > 0 => stdin_closed)
    /\ [](closes > 0 => pc \notin {"req_read", "req_drain"})
    /\ []((closes > 0 /\ outcome.op \in {"request", "notify"}) =>
             /\ outcome.kind = "raise"
             /\ outcome.resp = NoLine)

\* C37 witness: after close(), with the child still running, a notify() and
\* then a request() were made; the request() raised ValueError at its write
\* and the child has received nothing.
C37_Witness ==
    /\ closes = 1
    /\ notifies = 1
    /\ calls = 1
    /\ wire = << >>
    /\ child = "running"
    /\ outcome.op = "request"
    /\ outcome.exc = "ValueError"
    /\ pc = "idle"

\* C38: from start() on, no step of request(), notify(), call_tool(),
\* initialize() or close() changes the client's command or its process
\* handle; next_id is the one field that is assigned, and each assignment
\* adds one to it.
C38_CommandAndProcFixed ==
    /\ [][proc # NoProc => (command' = command /\ proc' = proc)]_vars
    /\ [](proc # NoProc => (command = TheCommand /\ proc = TheProc))
    /\ [][(proc # NoProc /\ next_id' # next_id) => next_id' = next_id + 1]_vars

\* C38 witness: two requests, a notification and two calls of close() later,
\* next_id has gone from 1 to 3 and command and process handle are those
\* start() set.
C38_Witness ==
    /\ calls = 2
    /\ notifies = 1
    /\ closes = 2
    /\ outcome = Return("close")
    /\ next_id = 3
    /\ command = TheCommand
    /\ proc = TheProc

====
